---- MODULE Spec2Model ----
\* A model of bloom-finance: the e-mail to transaction extraction engine
\* (backend/utils.py, backend/gmail_parser.py, cloud_functions/database_writer),
\* the Gmail watcher with its processed-message store
\* (cloud_functions/gmail_watcher) and the backend refresh route
\* (backend/routes.py).
\*
\* Text is modelled at the level of lexemes: a subject or a body is a sequence
\* of tokens (TLA+ strings); the block separator that extract_html_content
\* inserts is a token of its own.  A provider timestamp is a sequence of
\* decimal digits, as the Gmail API delivers internalDate as a string.
\* Time is scaled: a day has MsPerDay milliseconds, a millisecond has UsPerMs
\* microseconds.
EXTENDS Integers, Sequences, FiniteSets, TLC

\* ---------------------------------------------------------------- bounds

MsPerDay == 4
UsPerMs == 2
MaxClock == 13
MaxRuns == 3
MaxRefreshes == 2
MaxFaults == 1
MaxTs == 12
MaxRules == 2
MaxMerchant == 2
MaxBackfills == 2
MaxEdits == 2
MaxRuleCalls == 2
MaxParts == 3

\* ------------------------------------------------------ sequences, text

Max2(a, b) == IF a >= b THEN a ELSE b

Min2(a, b) == IF a <= b THEN a ELSE b

\* s[a-1:b] of Python on a 1-based sequence: bounds beyond the ends are clipped.
Slice(s, a, b) ==
    IF Max2(a, 1) > Min2(b, Len(s)) THEN <<>> ELSE SubSeq(s, Max2(a, 1), Min2(b, Len(s)))

RECURSIVE Join(_)
\* ' '.join(tokens): the text a token sequence stands for.
Join(toks) ==
    IF toks = <<>> THEN ""
    ELSE IF Len(toks) = 1 THEN toks[1]
    ELSE toks[1] \o " " \o Join(Tail(toks))

\* s.find(sub) on token sequences, 1-based; 0 when sub does not occur.
IndexOf(s, sub) ==
    LET hits == {i \in 1..(Len(s) - Len(sub) + 1) :
                    Slice(s, i, i + Len(sub) - 1) = sub}
    IN IF hits = {} THEN 0 ELSE CHOOSE i \in hits : \A j \in hits : i <= j

\* sub in s
Contains(s, sub) == IndexOf(s, sub) # 0

\* s.split(sep)[k], k 0-based, for a one-token separator; <<"!">> marks IndexError.
SplitPositions(s, sep) == {i \in 1..Len(s) : s[i] = sep}

SplitCount(s, sep) == Cardinality(SplitPositions(s, sep)) + 1

SplitPiece(s, sep, k) ==
    LET pos == SplitPositions(s, sep)
        nth(n) == CHOOSE i \in pos : Cardinality({j \in pos : j < i}) = n - 1
        lo == IF k = 0 THEN 1 ELSE nth(k) + 1
        hi == IF k = Cardinality(pos) THEN Len(s) ELSE nth(k + 1) - 1
    IN Slice(s, lo, hi)

\* s.split(sub)[0] for a separator of several tokens.
SplitBefore(s, sub) ==
    IF IndexOf(s, sub) = 0 THEN s ELSE Slice(s, 1, IndexOf(s, sub) - 1)

\* s.split(sep)[-1]
SplitLast(s, sep) == SplitPiece(s, sep, SplitCount(s, sep) - 1)

\* ---------------------------------------------------------- digit strings

RECURSIVE StrOf(_)
\* str(n): the decimal digits of a natural number.
StrOf(n) == IF n < 10 THEN <<n>> ELSE Append(StrOf(n \div 10), n % 10)

RECURSIVE IntOf(_)
\* int(s) for a digit string.
IntOf(s) == IF s = <<>> THEN 0 ELSE 10 * IntOf(Slice(s, 1, Len(s) - 1)) + s[Len(s)]

\* The order a document store gives string values: by the first differing
\* character, a proper prefix first.
StrLess(a, b) ==
    \E i \in 1..(Len(b)) :
        /\ \A j \in 1..(i - 1) : j <= Len(a) /\ a[j] = b[j]
        /\ \/ i > Len(a)
           \/ i <= Len(a) /\ a[i] < b[i]

\* ------------------------------------------------------------ configuration

\* os.getenv(name) of a variable that is not set.
None == "<None>"

VENMO_EMAIL == "venmo@venmo.com"
AMEX_EMAIL == "amex@welcome.americanexpress.com"
CHASE_EMAIL == "no.reply.alerts@chase.com"
CAPITALONE_EMAIL == "capitalone@notification.capitalone.com"
WELLSFARGO_EMAIL == "alerts@notify.wellsfargo.com"
OTHER_EMAIL == "news@example.com"

InstitutionVars == {"VENMO_EMAIL", "AMEX_EMAIL", "CHASE_EMAIL", "CAPITALONE_EMAIL", "WELLSFARGO_EMAIL"}

\* The process environment with every value set.
FullEnv ==
    [n \in InstitutionVars \cup {"EMPLOYER"} |->
        CASE n = "VENMO_EMAIL" -> VENMO_EMAIL
          [] n = "AMEX_EMAIL" -> AMEX_EMAIL
          [] n = "CHASE_EMAIL" -> CHASE_EMAIL
          [] n = "CAPITALONE_EMAIL" -> CAPITALONE_EMAIL
          [] n = "WELLSFARGO_EMAIL" -> WELLSFARGO_EMAIL
          [] OTHER -> "Initech"]

\* The environment with one variable not set.
Without(name) == [FullEnv EXCEPT ![name] = None]

Envs == {FullEnv} \cup {Without(n) : n \in InstitutionVars}

\* get_env_variable raises ValueError for a variable that is not set.
MissingVariable(environ) == \E n \in InstitutionVars : environ[n] = None

\* --------------------------------------------------------------- time

UsPerDay == MsPerDay * UsPerMs

\* datetime.strftime('%Y-%m-%d %H:%M:%S.%f') of an instant in microseconds:
\* the text is the pair <<date, time of day>>.
FormatDatetime(us) == <<us \div UsPerDay, us % UsPerDay>>

\* datetime.strptime(text, '%Y-%m-%d %H:%M:%S.%f').replace(tzinfo=utc), in microseconds.
ParseDatetimeUtc(text) == text[1] * UsPerDay + text[2]

\* datetime.fromtimestamp(int(ts)/1000, tz=utc), in microseconds.
FromTimestampUtc(ts) == IntOf(ts) * UsPerMs

\* A variant that lets a message through whose time equals the cutoff.
is_email_inscope_inclusive(email_timestamp, cutoff_datetime) ==
    FromTimestampUtc(email_timestamp) >= ParseDatetimeUtc(cutoff_datetime)

\* True when the e-mail is newer than the cutoff, False when it was already seen.
is_email_inscope(email_timestamp, cutoff_datetime) ==
    FromTimestampUtc(email_timestamp) > ParseDatetimeUtc(cutoff_datetime)

\* fromtimestamp(int(ts)/1000).strftime('%Y-%m-%d'): the local calendar date;
\* tz is the offset of local time from UTC in milliseconds.
convert_unix_timestamp_to_date(unix_timestamp, tz) ==
    ToString((IntOf(unix_timestamp) + tz) \div MsPerDay)

\* ------------------------------------------------------ HTML normalizer

LF == "<LF>"
SlashN == "/n"

\* soup.get_text(separator, strip=True) after script, style and meta elements
\* are removed: the stripped, non-empty text blocks joined by the separator.
RECURSIVE GetText(_, _)
GetText(html, separator) ==
    IF html = <<>> THEN <<>>
    ELSE LET rest == GetText(Tail(html), separator)
             drop == Head(html).tag \in {"script", "style", "meta"} \/ Head(html).text = <<>>
         IN IF drop THEN rest
            ELSE IF rest = <<>> THEN Head(html).text
            ELSE Head(html).text \o <<separator>> \o rest

\* backend/utils.py
extract_html_content(html_body) == GetText(html_body, LF)

\* cloud_functions/gmail_watcher
watcher_extract_html_content(html_body) == GetText(html_body, SlashN)

\* ------------------------------------------------- extraction: patterns

\* Tokens that a regular expression's character classes accept.
Money2 == {"12.34", "5.00", "99.99", "50.00"}
MoneyComma == Money2 \cup {"1,234.56"}
Digits4 == {"1234"}
Digits5 == {"12345"}
DigitsAny == Digits4 \cup Digits5
MerchantCharset == {"ACME", "STORE", "Alice", "Bob", "Your", "You", "sent", "transaction", "with"}

StripCommas(tok) == IF tok = "1,234.56" THEN "1234.56" ELSE tok

\* The outcome of one assignment statement: a value, or the exception raised.
Ok(v) == [ok |-> TRUE, v |-> v, exc |-> ""]
Fail(e) == [ok |-> FALSE, v |-> "", exc |-> e]
Let(var, r) == [var |-> var, r |-> r]

\* re.search(pattern, text).group(1) where pattern is the token sequence
\* pre, one token of class cls (the group), post.
SearchOne(text, pre, cls, post) ==
    LET n == Len(pre)
        hits == {i \in 1..Len(text) :
                    /\ i + n + Len(post) <= Len(text)
                    /\ Slice(text, i, i + n - 1) = pre
                    /\ text[i + n] \in cls
                    /\ Slice(text, i + n + 1, i + n + Len(post)) = post}
    IN IF hits = {} THEN Fail("AttributeError")
       ELSE Ok(text[(CHOOSE i \in hits : \A j \in hits : i <= j) + n])

\* re.search(pre (.*?) post, text).group(1): the shortest run of tokens, from
\* the leftmost pre, that is followed by post; the run holds no token of stop
\* and at least least tokens.
SearchLazyRun(text, pre, post, stop, least) ==
    LET n == Len(pre)
        hits == {<<i, j>> \in (1..Len(text)) \X (1..(Len(text) + 1)) :
                    /\ Slice(text, i, i + n - 1) = pre
                    /\ j >= i + n + least
                    /\ j + Len(post) - 1 <= Len(text)
                    /\ Slice(text, j, j + Len(post) - 1) = post
                    /\ \A k \in (i + n)..(j - 1) : text[k] \notin stop}
    IN IF hits = {} THEN [ok |-> FALSE, toks |-> <<>>]
       ELSE LET h == CHOOSE h \in hits : \A g \in hits :
                        h[1] < g[1] \/ (h[1] = g[1] /\ h[2] <= g[2])
            IN [ok |-> TRUE, toks |-> Slice(text, h[1] + n, h[2] - 1)]

SearchLazy(text, pre, post, stop, least) ==
    LET m == SearchLazyRun(text, pre, post, stop, least)
    IN IF m.ok THEN Ok(Join(m.toks)) ELSE Fail("AttributeError")

\* The same with \s* on both sides of the group (re.DOTALL): line breaks
\* around the group are not part of it.
RECURSIVE StripLF(_)
StripLF(toks) ==
    IF toks = <<>> THEN <<>>
    ELSE IF Head(toks) = LF THEN StripLF(Tail(toks))
    ELSE IF toks[Len(toks)] = LF THEN StripLF(Slice(toks, 1, Len(toks) - 1))
    ELSE toks

\* The first position from i on that holds no line break (\s* skipped).
SkipLF(text, i) ==
    LET rest == {k \in i..Len(text) : text[k] # LF}
    IN IF rest = {} THEN Len(text) + 1 ELSE CHOOSE k \in rest : \A l \in rest : k <= l

\* re.search(pre \s* mid (cls) \s* post, text).group(1): pre and post are one
\* token each, mid is a token sequence that directly precedes the group.
SearchSpaced(text, pre, mid, cls, post) ==
    LET hits == {i \in 1..Len(text) :
                    /\ text[i] = pre
                    /\ LET a == SkipLF(text, i + 1)
                           g == a + Len(mid)
                       IN /\ g <= Len(text)
                          /\ Slice(text, a, g - 1) = mid
                          /\ text[g] \in cls
                          /\ SkipLF(text, g + 1) <= Len(text)
                          /\ text[SkipLF(text, g + 1)] = post}
    IN IF hits = {} THEN Fail("AttributeError")
       ELSE LET i == CHOOSE i \in hits : \A j \in hits : i <= j
            IN Ok(text[SkipLF(text, i + 1) + Len(mid)])

\* ----------------------------------------- extraction: institution rules
\* Each rule is the list of its assignment statements in source order.

Prefix(email_timestamp, uuid, tz) ==
    << Let("transaction_id", Ok(uuid)),
       Let("transaction_date", Ok(convert_unix_timestamp_to_date(email_timestamp, tz))) >>

VenmoTrigger(subject) ==
    Contains(subject, <<"paid", "you">>) \/ Contains(subject, <<"You", "paid">>)

\* subject.split('$')[1]
VenmoAmount(subject) ==
    IF SplitCount(subject, "$") >= 2 THEN Ok(Join(SplitPiece(subject, "$", 1)))
    ELSE Fail("IndexError")

\* A variant that takes the whole subject for the merchant.
VenmoPaidMerchant_whole(subject) == Ok(Join(subject))

\* re.search(r'You paid (.+?) \$\d+\.\d{2}', subject).group(1)
VenmoPaidMerchant(subject) ==
    LET hits == {<<i, j>> \in (1..Len(subject)) \X (1..Len(subject)) :
                    /\ Slice(subject, i, i + 1) = <<"You", "paid">>
                    /\ j >= i + 3
                    /\ j + 1 <= Len(subject)
                    /\ subject[j] = "$"
                    /\ subject[j + 1] \in Money2}
    IN IF hits = {} THEN Fail("AttributeError")
       ELSE LET h == CHOOSE h \in hits : \A g \in hits :
                        h[1] < g[1] \/ (h[1] = g[1] /\ h[2] <= g[2])
            IN Ok(Join(Slice(subject, h[1] + 2, h[2] - 1)))

VenmoSteps(subject, email_timestamp, uuid, tz) ==
    Prefix(email_timestamp, uuid, tz) \o
    << Let("transaction_bucket", Ok("Expense")),
       Let("transaction_amount", VenmoAmount(subject)),
       Let("transaction_category", Ok("")),
       Let("transaction_subcategory", Ok("")),
       Let("transaction_account", Ok("Venmo")),
       Let("transaction_recurring", Ok("False")) >> \o
    IF Contains(subject, <<"You", "paid">>)
    THEN << Let("transaction_merchant", VenmoPaidMerchant(subject)) >>
    ELSE << Let("transaction_merchant", Ok(Join(SplitBefore(subject, <<"paid", "you">>)))),
            Let("transaction_amount", Ok("-" \o VenmoAmount(subject).v)) >>

AmexTrigger(subject) == subject = <<"Large", "Purchase", "Approved">>

\* email_content.split('\n')[9]
AmexMerchant(email_content) ==
    IF SplitCount(email_content, LF) >= 10 THEN Ok(Join(SplitPiece(email_content, LF, 9)))
    ELSE Fail("IndexError")

AmexSteps(email_timestamp, email_content, uuid, tz) ==
    Prefix(email_timestamp, uuid, tz) \o
    << Let("transaction_merchant", AmexMerchant(email_content)),
       Let("transaction_bucket", Ok("Expense")),
       Let("transaction_amount", SearchOne(email_content, <<LF, "$">>, Money2, <<"*">>)),
       Let("transaction_category", Ok("")),
       Let("transaction_subcategory", Ok("")),
       Let("transaction_account",
           LET m == SearchOne(email_content, <<"Account Ending:">>, Digits5, <<>>)
           IN IF m.ok THEN Ok("American Express " \o m.v) ELSE m),
       Let("transaction_recurring", Ok("False")) >>

\* re.search(r'transaction with ([A-Za-z0-9\s\*\.\#\']+)', subject).group(1):
\* the longest run of tokens of the character set after the leftmost match.
ChaseCardMerchant(subject) ==
    LET hits == {i \in 1..(Len(subject) - 2) :
                    /\ Slice(subject, i, i + 1) = <<"transaction", "with">>
                    /\ subject[i + 2] \in MerchantCharset}
    IN IF hits = {} THEN Fail("AttributeError")
       ELSE LET i == CHOOSE i \in hits : \A j \in hits : i <= j
                ends == {k \in (i + 2)..Len(subject) :
                            \A l \in (i + 2)..k : subject[l] \in MerchantCharset}
                e == CHOOSE k \in ends : \A l \in ends : l <= k
            IN Ok(Join(Slice(subject, i + 2, e)))

WithPrefix(prefix, m) == IF m.ok THEN Ok(prefix \o m.v) ELSE m

ChaseTransferSteps(email_timestamp, email_content, uuid, tz) ==
    Prefix(email_timestamp, uuid, tz) \o
    << Let("transaction_merchant",
           SearchLazy(email_content, <<"Recipient", LF>>, <<LF, "Amount">>, {LF}, 0)),
       Let("transaction_bucket", Ok("")),
       Let("transaction_amount", SearchOne(email_content, <<"Amount", LF, "$">>, Money2, <<>>)),
       Let("transaction_category", Ok("")),
       Let("transaction_subcategory", Ok("")),
       Let("transaction_account",
           WithPrefix("Chase ", SearchOne(email_content, <<"Account ending in", LF, "(...">>,
                                          Digits4, <<")", LF, "Sent on">>))),
       Let("transaction_recurring", Ok("False")) >>

ChaseCardSteps(subject, email_timestamp, email_content, uuid, tz) ==
    Prefix(email_timestamp, uuid, tz) \o
    << Let("transaction_merchant", ChaseCardMerchant(subject)),
       Let("transaction_bucket", Ok("")),
       Let("transaction_amount", SearchOne(subject, <<"$">>, Money2, <<>>)),
       Let("transaction_category", Ok("")),
       Let("transaction_subcategory", Ok("")),
       Let("transaction_account",
           WithPrefix("Chase ", SearchOne(email_content, <<"(...">>, DigitsAny, <<")">>))),
       Let("transaction_recurring", Ok("False")) >>

\* A variant that leaves the category of a direct deposit empty.
ChaseDepositSteps_uncategorised(subject, email_timestamp, uuid, tz, env) ==
    Prefix(email_timestamp, uuid, tz) \o
    << Let("transaction_merchant", Ok(env["EMPLOYER"])),
       Let("transaction_bucket", Ok("Income")),
       Let("transaction_amount", SearchOne(subject, <<"$">>, MoneyComma, <<>>)),
       Let("transaction_category", Ok("")),
       Let("transaction_subcategory", Ok("")),
       Let("transaction_account", SearchOne(subject, <<"(...">>, Digits4, <<")">>)),
       Let("transaction_recurring", Ok("False")) >>

\* A variant that keeps the commas of the amount.
ChaseDepositSteps_raw_amount(subject, email_timestamp, uuid, tz, env) ==
    Prefix(email_timestamp, uuid, tz) \o
    << Let("transaction_merchant",
           IF env["EMPLOYER"] = None THEN Fail("KeyError") ELSE Ok(env["EMPLOYER"])),
       Let("transaction_bucket", Ok("Income")),
       Let("transaction_amount", SearchOne(subject, <<"$">>, MoneyComma, <<>>)),
       Let("transaction_category", Ok("Paychecks")),
       Let("transaction_subcategory", Ok("")),
       Let("transaction_account",
           WithPrefix("Chase ", SearchOne(subject, <<"(...">>, Digits4, <<")">>))),
       Let("transaction_recurring", Ok("False")) >>

ChaseDepositSteps(subject, email_timestamp, uuid, tz, env) ==
    Prefix(email_timestamp, uuid, tz) \o
    << Let("transaction_merchant",
           IF env["EMPLOYER"] = None THEN Fail("KeyError") ELSE Ok(env["EMPLOYER"])),
       Let("transaction_bucket", Ok("Income")),
       Let("transaction_amount",
           LET m == SearchOne(subject, <<"$">>, MoneyComma, <<>>)
           IN IF m.ok THEN Ok(StripCommas(m.v)) ELSE m),
       Let("transaction_category", Ok("Paychecks")),
       Let("transaction_subcategory", Ok("")),
       Let("transaction_account",
           WithPrefix("Chase ", SearchOne(subject, <<"(...">>, Digits4, <<")">>))),
       Let("transaction_recurring", Ok("False")) >>

CapitalOneTrigger(subject) == subject = <<"A new transaction was charged to your account">>

\* re.search(r'at (.*?)\, a pending authorization or purchase', c).group(1).split(' at ')[-1]
CapitalOneMerchant(email_content) ==
    LET m == SearchLazyRun(email_content, <<"at">>,
                           <<",", "a pending authorization or purchase">>, {LF}, 0)
    IN IF m.ok THEN Ok(Join(SplitLast(m.toks, "at"))) ELSE Fail("AttributeError")

CapitalOneSteps(email_timestamp, email_content, uuid, tz) ==
    Prefix(email_timestamp, uuid, tz) \o
    << Let("transaction_merchant", CapitalOneMerchant(email_content)),
       Let("transaction_bucket", Ok("")),
       Let("transaction_amount", SearchOne(email_content, <<"amount of", "$">>, Money2, <<>>)),
       Let("transaction_category", Ok("")),
       Let("transaction_subcategory", Ok("")),
       Let("transaction_account",
           WithPrefix("Capital One ", SearchOne(email_content, <<"ending in">>, Digits4, <<>>))),
       Let("transaction_recurring", Ok("False")) >>

WellsFargoTrigger(subject) == Contains(subject, <<"You made a credit card purchase of">>)

\* re.search(r'Merchant detail\s*(.*?)\s*View Accounts', c, re.DOTALL).group(1).strip()
WellsFargoMerchant(email_content) ==
    LET m == SearchLazyRun(email_content, <<"Merchant detail">>, <<"View Accounts">>, {}, 0)
    IN IF m.ok THEN Ok(Join(StripLF(m.toks))) ELSE Fail("AttributeError")

WellsFargoSteps(email_timestamp, email_content, uuid, tz) ==
    Prefix(email_timestamp, uuid, tz) \o
    << Let("transaction_merchant", WellsFargoMerchant(email_content)),
       Let("transaction_bucket", Ok("")),
       Let("transaction_amount",
           SearchSpaced(email_content, "Amount", <<"$">>, MoneyComma, "Merchant detail")),
       Let("transaction_category", Ok("")),
       Let("transaction_subcategory", Ok("")),
       Let("transaction_account",
           WithPrefix("Wells Fargo ",
                      SearchSpaced(email_content, "Credit card", <<"...">>, DigitsAny, "Amount"))),
       Let("transaction_recurring", Ok("False")) >>

\* -------------------------------------------------- extraction: dispatch

TxnVars ==
    <<"transaction_id", "transaction_date", "transaction_merchant", "transaction_bucket",
      "transaction_amount", "transaction_category", "transaction_subcategory",
      "transaction_account", "transaction_recurring">>

BlankTxn ==
    [transaction_id |-> "", transaction_date |-> "", merchant |-> "", bucket |-> "",
     amount |-> "", category |-> "", subcategory |-> "", account_name |-> "",
     is_recurring |-> ""]

\* What a call of the extraction engine gives: no transaction ({} or None),
\* a transaction, or an exception that leaves the call.
NoTxn == [kind |-> "none", exc |-> "", txn |-> BlankTxn]
Raised(e) == [kind |-> "raise", exc |-> e, txn |-> BlankTxn]
Produced(t) == [kind |-> "txn", exc |-> "", txn |-> t]

\* The statements of a rule are executed up to the first one that raises.
RunSteps(steps) ==
    LET bad == {i \in 1..Len(steps) : ~steps[i].r.ok}
        first == IF bad = {} THEN Len(steps) + 1 ELSE CHOOSE i \in bad : \A j \in bad : i <= j
    IN [done |-> Slice(steps, 1, first - 1),
        exc |-> IF bad = {} THEN "" ELSE steps[first].r.exc]

IsBound(done, var) == \E i \in 1..Len(done) : done[i].var = var

ValueOf(done, var) ==
    LET at == {i \in 1..Len(done) : done[i].var = var}
    IN done[CHOOSE i \in at : \A j \in at : j <= i].r.v

\* The dictionary built from the local variables of the rule.
TxnOf(done) ==
    [transaction_id |-> ValueOf(done, "transaction_id"),
     transaction_date |-> ValueOf(done, "transaction_date"),
     merchant |-> ValueOf(done, "transaction_merchant"),
     bucket |-> ValueOf(done, "transaction_bucket"),
     amount |-> ValueOf(done, "transaction_amount"),
     category |-> ValueOf(done, "transaction_category"),
     subcategory |-> ValueOf(done, "transaction_subcategory"),
     account_name |-> ValueOf(done, "transaction_account"),
     is_recurring |-> ValueOf(done, "transaction_recurring")]

NotFound == [found |-> FALSE, steps |-> <<>>]
Found(steps) == [found |-> TRUE, steps |-> steps]

\* A variant that tests 'transaction with' before 'You sent'.
ChaseRule_card_first(subject, email_timestamp, email_content, uuid, tz, env, deposit) ==
    IF Contains(subject, <<"transaction", "with">>)
    THEN Found(ChaseCardSteps(subject, email_timestamp, email_content, uuid, tz))
    ELSE IF Contains(subject, <<"You", "sent">>)
    THEN Found(ChaseTransferSteps(email_timestamp, email_content, uuid, tz))
    ELSE IF deposit /\ Contains(subject, <<"direct", "deposit">>)
    THEN Found(ChaseDepositSteps(subject, email_timestamp, uuid, tz, env))
    ELSE NotFound

\* The Chase rule: the sub-cases in the order the code tests them.
ChaseRule(subject, email_timestamp, email_content, uuid, tz, env, deposit) ==
    IF Contains(subject, <<"You", "sent">>)
    THEN Found(ChaseTransferSteps(email_timestamp, email_content, uuid, tz))
    ELSE IF Contains(subject, <<"transaction", "with">>)
    THEN Found(ChaseCardSteps(subject, email_timestamp, email_content, uuid, tz))
    ELSE IF deposit /\ Contains(subject, <<"direct", "deposit">>)
    THEN Found(ChaseDepositSteps(subject, email_timestamp, uuid, tz, env))
    ELSE NotFound

\* A variant whose last branch is an else: every other sender is read as Wells Fargo.
Dispatch_else(subject, from_email, email_timestamp, email_content, uuid, tz, env, deposit) ==
    IF from_email = env["VENMO_EMAIL"]
    THEN IF VenmoTrigger(subject)
         THEN Found(VenmoSteps(subject, email_timestamp, uuid, tz)) ELSE NotFound
    ELSE IF WellsFargoTrigger(subject)
    THEN Found(WellsFargoSteps(email_timestamp, email_content, uuid, tz))
    ELSE NotFound

\* The if/elif chain on the sender address and, inside it, on the subject.
Dispatch(subject, from_email, email_timestamp, email_content, uuid, tz, env, deposit) ==
    IF from_email = env["VENMO_EMAIL"]
    THEN IF VenmoTrigger(subject)
         THEN Found(VenmoSteps(subject, email_timestamp, uuid, tz)) ELSE NotFound
    ELSE IF from_email = env["AMEX_EMAIL"]
    THEN IF AmexTrigger(subject)
         THEN Found(AmexSteps(email_timestamp, email_content, uuid, tz)) ELSE NotFound
    ELSE IF from_email = env["CHASE_EMAIL"]
    THEN ChaseRule(subject, email_timestamp, email_content, uuid, tz, env, deposit)
    ELSE IF from_email = env["CAPITALONE_EMAIL"]
    THEN IF CapitalOneTrigger(subject)
         THEN Found(CapitalOneSteps(email_timestamp, email_content, uuid, tz)) ELSE NotFound
    ELSE IF from_email = env["WELLSFARGO_EMAIL"]
    THEN IF WellsFargoTrigger(subject)
         THEN Found(WellsFargoSteps(email_timestamp, email_content, uuid, tz)) ELSE NotFound
    ELSE NotFound

\* backend/utils.py parse_transaction_details.  transaction_found is set
\* before the rule's statements run; an exception in them is caught and
\* logged, and the dictionary is then built from whatever was assigned.
parse_transaction_details(subject, from_email, email_timestamp, email_content, last_update_time, uuid, tz, env) ==
    IF ~is_email_inscope(email_timestamp, last_update_time) THEN NoTxn
    ELSE LET rule == Dispatch(subject, from_email, email_timestamp, email_content,
                              uuid, tz, env, TRUE)
             run == RunSteps(rule.steps)
         IN IF ~rule.found THEN NoTxn
            ELSE IF \A i \in 1..Len(TxnVars) : IsBound(run.done, TxnVars[i])
            THEN Produced(TxnOf(run.done))
            ELSE Raised("UnboundLocalError")

\* bool False, as gmail_parser.py assigns it to transaction_recurring.
PyFalse == "<bool False>"

\* backend/gmail_parser.py parse_transaction_details: no try block and no
\* direct-deposit case.
legacy_parse_transaction_details(subject, from_email, email_timestamp, email_content, last_update_time, uuid, tz, env) ==
    IF ~is_email_inscope(email_timestamp, last_update_time) THEN NoTxn
    ELSE LET rule == Dispatch(subject, from_email, email_timestamp, email_content,
                              uuid, tz, env, FALSE)
             run == RunSteps(rule.steps)
         IN IF ~rule.found THEN NoTxn
            ELSE IF run.exc # "" THEN Raised(run.exc)
            ELSE Produced([TxnOf(run.done) EXCEPT !.is_recurring = PyFalse])

\* cloud_functions/database_writer TransactionParser.parse_transaction_details:
\* no watermark; any exception of a rule is caught and None is returned.
TransactionParser_parse_transaction_details(subject, from_email, email_timestamp, email_content, uuid, tz, env) ==
    LET rule == Dispatch(subject, from_email, email_timestamp, email_content,
                         uuid, tz, env, TRUE)
        run == RunSteps(rule.steps)
    IN IF ~rule.found THEN NoTxn
       ELSE IF run.exc # "" THEN NoTxn
       ELSE Produced(TxnOf(run.done))

\* ---------------------------------------- processed-message store
\* The Firestore collection is a function from document ids to documents.

NoDate == -1

SetDoc(coll, id, doc) == [k \in DOMAIN coll \cup {id} |-> IF k = id THEN doc ELSE coll[k]]

\* A variant that looks the id up in another collection: nothing is ever found.
is_message_processed_elsewhere(coll, message_id) == FALSE

\* doc_ref.get().exists
is_message_processed(coll, message_id) == message_id \in DOMAIN coll

\* A variant that writes every record under one fixed document id.
mark_message_as_processed_fixed(coll, message_id, message_timestamp) ==
    IF message_id # None
    THEN [coll |-> SetDoc(coll, "latest", [processed |-> TRUE, timestamp |-> message_timestamp]),
          exc |-> ""]
    ELSE [coll |-> coll, exc |-> "ValueError"]

\* A variant that stores the record with the flag processed not set.
mark_message_as_processed_pending(coll, message_id, message_timestamp) ==
    IF message_id # None
    THEN [coll |-> SetDoc(coll, message_id, [processed |-> FALSE, timestamp |-> message_timestamp]),
          exc |-> ""]
    ELSE [coll |-> coll, exc |-> "ValueError"]

\* The collection after the call, and the exception the call raises.
mark_message_as_processed(coll, message_id, message_timestamp) ==
    IF message_id # None
    THEN [coll |-> SetDoc(coll, message_id, [processed |-> TRUE, timestamp |-> message_timestamp]),
          exc |-> ""]
    ELSE [coll |-> coll, exc |-> "ValueError"]

\* order_by('timestamp', DESCENDING).limit(1): the stored timestamps are
\* strings, and the store orders strings character by character.
LatestDocs(coll) ==
    {k \in DOMAIN coll : \A l \in DOMAIN coll : ~StrLess(coll[k].timestamp, coll[l].timestamp)}

\* The UTC date of the first document of the query, None (NoDate) when the
\* query is empty or the timestamp is 0.
get_latest_processed_date(coll) ==
    IF LatestDocs(coll) = {} THEN NoDate
    ELSE LET timestamp == IntOf(coll[CHOOSE k \in LatestDocs(coll) : TRUE].timestamp)
         IN IF timestamp # 0 THEN timestamp \div MsPerDay ELSE NoDate

\* ------------------------------------------------------- mail provider

\* email_string[email_string.find('<')+1 : email_string.find('>')]
extract_email(email_string) ==
    LET lt == IndexOf(email_string, <<"<">>)
        gt == IndexOf(email_string, <<">">>)
    IN Join(Slice(email_string, lt + 1, IF gt = 0 THEN Len(email_string) - 1 ELSE gt - 1))

\* The body that get_message decodes: of a single-part message its own, of a
\* multi-part message that of the first part that is text/html or
\* multipart/related (of the latter, its first child); "unbound" when no part
\* is either.
SelectBody(payload) ==
    IF payload.parts = <<>> THEN [ok |-> TRUE, data |-> payload.body]
    ELSE LET at == {i \in 1..Len(payload.parts) :
                        payload.parts[i].mimeType \in {"text/html", "multipart/related"}}
         IN IF at = {} THEN [ok |-> FALSE, data |-> <<>>]
            ELSE LET part == payload.parts[CHOOSE i \in at : \A j \in at : i <= j]
                 IN [ok |-> TRUE,
                     data |-> IF part.mimeType = "text/html" THEN part.body
                              ELSE part.parts[1].body]

\* get_message: the dictionary it returns, as the set of keys it holds and
\* their values.  request_ok is whether the provider answered the request;
\* any exception is caught and what was filled in so far is returned.
get_message(message, request_ok) ==
    LET body == SelectBody(message.payload)
        blank == [keys |-> {}, subject |-> <<>>, from |-> <<>>,
                  message_timestamp |-> <<0>>, body |-> <<>>]
    IN IF ~request_ok THEN blank
       ELSE [keys |-> {"subject", "from", "message_timestamp"} \cup
                      (IF body.ok THEN {"body"} ELSE {}),
             subject |-> message.subject,
             from |-> message.from,
             message_timestamp |-> message.internalDate,
             body |-> body.data]

\* ------------------------------------------------------------- fixtures

P(toks) == [tag |-> "p", text |-> toks]

AmexHtml ==
    << [tag |-> "style", text |-> <<"body{}">>], P(<<"American Express">>),
       P(<<"Account Ending:", "12345">>), P(<<"Large Purchase Approved">>),
       P(<<"Dear", "Alice">>), P(<<"A", "charge">>), P(<<"was", "approved">>),
       P(<<"on", "your">>), P(<<"card">>), P(<<"Merchant">>), P(<<"ACME", "STORE">>),
       P(<<"$", "99.99", "*">>), P(<<"Date">>) >>

ChaseTransferHtml ==
    << P(<<"Recipient">>), P(<<"Alice">>), P(<<"Amount">>), P(<<"$", "50.00">>),
       P(<<"Account ending in">>), P(<<"(...", "1234", ")">>), P(<<"Sent on">>) >>

ChaseCardHtml ==
    << [tag |-> "meta", text |-> <<>>], P(<<"Account">>), P(<<"Card", "(...", "1234", ")">>) >>

CapitalOneHtml ==
    << P(<<"On", "Oct", "at", "ACME", "STORE", ",", "a pending authorization or purchase",
           "in the", "amount of", "$", "12.34", "was placed on your account",
           "ending in", "1234">>) >>

WellsFargoHtml ==
    << P(<<"Credit card", "...", "1234">>), P(<<"Amount", "$", "12.34">>),
       P(<<"Merchant detail">>), P(<<"ACME", "STORE">>), P(<<"View Accounts">>) >>

WellsFargoLargeHtml ==
    << P(<<"Credit card", "...", "1234">>), P(<<"Amount", "$", "1,234.56">>),
       P(<<"Merchant detail">>), P(<<"ACME", "STORE">>), P(<<"View Accounts">>) >>

PlainHtml == << [tag |-> "script", text |-> <<"x()">>], P(<<"Hello">>) >>

Htmls ==
    {AmexHtml, ChaseTransferHtml, ChaseCardHtml, CapitalOneHtml, WellsFargoHtml,
     WellsFargoLargeHtml, PlainHtml}

Subjects ==
    { <<"You", "paid", "Alice", "$", "12.34">>,
      <<"Bob", "paid", "you", "$", "5.00">>,
      <<"You", "paid", "Alice">>,
      <<"Bob", "paid", "you", "$">>,
      <<"You", "paid", "Alice", "Smith", "$", "12.34">>,
      <<"You", "sent", "$", "50.00", "for", "your", "transaction", "with", "Alice">>,
      <<"Your", "$", "12.34", "transaction", "with", "direct", "deposit">>,
      <<"Large", "Purchase", "Approved">>,
      <<"You", "sent", "$", "50.00", "to", "Alice">>,
      <<"Your", "$", "12.34", "transaction", "with", "ACME", "STORE">>,
      <<"You", "got", "a", "direct", "deposit", "of", "$", "1,234.56", "(...", "1234", ")">>,
      <<"A new transaction was charged to your account">>,
      <<"You made a credit card purchase of", "$", "12.34">>,
      <<"Your", "statement", "is", "ready">> }

Senders == {VENMO_EMAIL, AMEX_EMAIL, CHASE_EMAIL, CAPITALONE_EMAIL, WELLSFARGO_EMAIL, OTHER_EMAIL}

\* Bodies as the extraction engine receives them: normalized by the backend
\* or by the watcher.
Contents == {extract_html_content(h) : h \in Htmls} \cup
            {watcher_extract_html_content(h) : h \in Htmls}

\* Timestamps and cutoffs around the start of day 1.
ParseTimestamps == {StrOf(n) : n \in (MsPerDay - 1)..(MsPerDay + 1)}
ParseCutoffs == {<<1, u>> : u \in 0..(UsPerMs - 1)}

\* ---------------------------------------------------------------- state

VARIABLES
    env,            \* the process environment (os.environ)
    tz,             \* offset of local time from UTC, in milliseconds
    uuids,          \* number of identifiers generate_uuid has handed out
    call,           \* extraction engine: the arguments of the call under study
    out_utils,      \* result of backend/utils.py parse_transaction_details
    out_legacy,     \* result of backend/gmail_parser.py parse_transaction_details
    out_cloud,      \* result of TransactionParser.parse_transaction_details
    mailbox,        \* the mailbox: message id -> internalDate of the messages delivered
    processed,      \* the Firestore collection of processed messages
    store_out,      \* the last call made on FirestoreService and its outcome
    marked,         \* the ids mark_message_as_processed was called with
    topic,          \* the messages published to the Pub/Sub topic, in order
    w_pc,           \* gmail_watcher_main: where the run stands
    w_messages,     \* gmail_watcher_main: the listed messages not yet handled
    w_data,         \* gmail_watcher_main: message_data of the message in hand
    w_error,        \* the exception that ended the last run, "" when none did
    w_fetch_failed, \* whether get_message met a provider failure in this run
    w_skipped,      \* the ids this run skipped as already processed
    runs,           \* number of runs of gmail_watcher_main started
    crashes,        \* number of runs an exception ended
    faults,         \* number of failures of external services so far
    now,            \* the clock, in microseconds
    last_transaction_refresh, \* user_data.last_transaction_refresh, a datetime text
    transactions,   \* the rows of the transactions table, each with the message it came from
    b_pc,           \* refresh_transactions: where the call stands
    b_pending,      \* refresh_transactions: the parsed transactions not yet stored
    b_error,        \* the exception that ended the last call, "" when none did
    refreshes,      \* number of calls of refresh_transactions started
    rules_table,    \* the rows of the table rules, NoTable when the table does not exist
    edits,          \* number of calls of the update, delete and backfill operations
    r_merchant,     \* apply_rules_engine: the merchant name given
    r_rules1,       \* apply_rules_engine: a list of rules
    r_rules2,       \* apply_rules_engine: the rules that follow r_rules1
    r_out,          \* apply_rules_engine: the results of the calls
    ledger,         \* backfill_transaction_rules: merchant by transaction_id
    bf_out,         \* backfill_transaction_rules: the calls made and the last outcome
    sink,           \* the writer's collection transactions: document id -> fields
    delivered,      \* how many messages of the topic were pushed to the writer
    writer_out,     \* process_pubsub_trigger: the response to each push, in order
    w_since,        \* the lower-bound date of each gmail_watcher_main run, in order
    transaction_rules, \* the rows of the table transaction_rules, in rowid order
    rule_out,       \* the rule handlers: the response to each call, in order
    msg,            \* a message resource as users().messages().get returns it
    msg_out         \* get_message: what each of the two versions returned

envVars == <<env, tz, uuids>>
parseVars == <<call, out_utils, out_legacy, out_cloud>>
storeVars == <<store_out, marked>>
watcherVars == <<topic, w_pc, w_messages, w_data, w_error, w_fetch_failed, w_skipped,
                 runs, crashes, faults>>

backendVars == <<now, last_transaction_refresh, transactions, b_pc, b_pending, b_error,
                 refreshes>>

apiVars == <<rules_table, edits>>
rulesVars == <<r_merchant, r_rules1, r_rules2, r_out, ledger, bf_out>>

writerVars == <<sink, delivered, writer_out>>
ruleApiVars == <<transaction_rules, rule_out>>
bodyVars == <<msg, msg_out>>
extVars == <<writerVars, w_since, ruleApiVars, bodyVars>>

vars == <<envVars, parseVars, mailbox, processed, storeVars, watcherVars, backendVars,
          apiVars, rulesVars, extVars>>

\* str(uuid.uuid4()): an identifier never handed out before.
generate_uuid(n) == "uuid-" \o ToString(n)

NotRun == [kind |-> "notrun", exc |-> "", txn |-> BlankTxn]

NoCall ==
    [subject |-> <<>>, from_email |-> "", email_timestamp |-> <<0>>,
     email_content |-> <<>>, last_update_time |-> <<0, 0>>]

NoStoreCall == [op |-> "", id |-> "", exc |-> "", ret |-> FALSE, date |-> NoDate]

NoData ==
    [message_id |-> "", message_sender |-> "", message_subject |-> <<>>,
     message_timestamp |-> <<0>>, message_body |-> <<>>]

EmptyColl == [k \in {} |-> [processed |-> TRUE, timestamp |-> <<0>>]]
EmptyMailbox == [k \in {} |-> <<0>>]

EnvInit == env = FullEnv /\ tz = 0 /\ uuids = 0

ParseIdle == call = NoCall /\ out_utils = NotRun /\ out_legacy = NotRun /\ out_cloud = NotRun

StoreIdle == store_out = NoStoreCall /\ marked = {}

WatcherIdle ==
    /\ topic = <<>>
    /\ w_pc = "idle"
    /\ w_messages = <<>>
    /\ w_data = NoData
    /\ w_error = ""
    /\ w_fetch_failed = FALSE
    /\ w_skipped = {}
    /\ runs = 0
    /\ crashes = 0
    /\ faults = 0

\* '2024-10-01 01:00:00.000', the value init_db stores: before any message.
InitialRefresh == <<0, 0>>

\* init_db creates no table rules.
NoTable == [exists |-> FALSE, rows |-> <<>>]

\* The table rules with its rows.
Table(rows) == [exists |-> TRUE, rows |-> rows]

ApiIdle == rules_table = NoTable /\ edits = 0

NoRulesCall ==
    [kind |-> "notrun", joined |-> [merchant |-> <<>>, exc |-> ""],
     staged |-> [merchant |-> <<>>, exc |-> ""], swapped |-> [merchant |-> <<>>, exc |-> ""]]

NoBackfill == [runs |-> 0, exc |-> "", updated_count |-> 0, rewritten |-> {}]

WriterIdle == sink = <<>> /\ delivered = 0 /\ writer_out = <<>>

RuleApiIdle == transaction_rules = <<>> /\ rule_out = <<>>

NoMessage == [payload |-> [headers |-> <<>>, parts |-> <<>>]]

BodyIdle == msg = NoMessage /\ msg_out = <<>>

ExtIdle == WriterIdle /\ w_since = <<>> /\ RuleApiIdle /\ BodyIdle

RulesIdle ==
    /\ r_merchant = <<>>
    /\ r_rules1 = <<>>
    /\ r_rules2 = <<>>
    /\ r_out = NoRulesCall
    /\ ledger = <<>>
    /\ bf_out = NoBackfill

BackendIdle ==
    /\ now = 0
    /\ last_transaction_refresh = InitialRefresh
    /\ transactions = {}
    /\ b_pc = "idle"
    /\ b_pending = <<>>
    /\ b_error = ""
    /\ refreshes = 0

\* ------------------------------------- specification: extraction engine

ParseInit ==
    /\ ExtIdle
    /\ EnvInit
    /\ call \in [subject : Subjects, from_email : Senders,
                 email_timestamp : ParseTimestamps, email_content : Contents,
                 last_update_time : ParseCutoffs]
    /\ out_utils = NotRun
    /\ out_legacy = NotRun
    /\ out_cloud = NotRun
    /\ mailbox = EmptyMailbox
    /\ processed = EmptyColl
    /\ StoreIdle
    /\ WatcherIdle
    /\ BackendIdle
    /\ ApiIdle
    /\ RulesIdle

CallUtils ==
    /\ out_utils = NotRun
    /\ out_utils' = parse_transaction_details(call.subject, call.from_email,
                        call.email_timestamp, call.email_content, call.last_update_time,
                        generate_uuid(uuids), tz, env)
    /\ uuids' = uuids + 1
    /\ UNCHANGED <<extVars, rulesVars, apiVars, env, tz, call, out_legacy, out_cloud, mailbox,
                   processed, storeVars, watcherVars, backendVars>>

CallLegacy ==
    /\ out_legacy = NotRun
    /\ out_legacy' = legacy_parse_transaction_details(call.subject, call.from_email,
                        call.email_timestamp, call.email_content, call.last_update_time,
                        generate_uuid(uuids), tz, env)
    /\ uuids' = uuids + 1
    /\ UNCHANGED <<extVars, rulesVars, apiVars, env, tz, call, out_utils, out_cloud, mailbox,
                   processed, storeVars, watcherVars, backendVars>>

CallCloud ==
    /\ out_cloud = NotRun
    /\ out_cloud' = TransactionParser_parse_transaction_details(call.subject,
                        call.from_email, call.email_timestamp, call.email_content,
                        generate_uuid(uuids), tz, env)
    /\ uuids' = uuids + 1
    /\ UNCHANGED <<extVars, rulesVars, apiVars, env, tz, call, out_utils, out_legacy, mailbox,
                   processed, storeVars, watcherVars, backendVars>>

ParseNext == CallUtils \/ CallLegacy \/ CallCloud

ParseSpec == ParseInit /\ [][ParseNext]_vars

\* --------------------------- specification: the processed-message store
\* FirestoreService called directly, with any argument.

StoreIds == {"m1", "m2", "", None}
StoreTimestamps == {StrOf(n) : n \in 1..MaxTs}

StoreInit ==
    /\ ExtIdle
    /\ EnvInit
    /\ ParseIdle
    /\ mailbox = EmptyMailbox
    /\ processed = EmptyColl
    /\ StoreIdle
    /\ WatcherIdle
    /\ BackendIdle
    /\ ApiIdle
    /\ RulesIdle

StoreMark(id, ts) ==
    LET r == mark_message_as_processed(processed, id, ts)
    IN /\ processed' = r.coll
       /\ marked' = marked \cup {id}
       /\ store_out' = [NoStoreCall EXCEPT !.op = "mark", !.id = id, !.exc = r.exc]
       /\ UNCHANGED <<extVars, rulesVars, apiVars, envVars, parseVars, mailbox, watcherVars,
                      backendVars>>

StoreIsProcessed(id) ==
    /\ store_out' = [NoStoreCall EXCEPT !.op = "is_processed", !.id = id,
                                        !.ret = is_message_processed(processed, id)]
    /\ UNCHANGED <<extVars, rulesVars, apiVars, envVars, parseVars, mailbox, processed, marked,
                   watcherVars, backendVars>>

StoreLatest ==
    /\ store_out' = [NoStoreCall EXCEPT !.op = "latest",
                                        !.date = get_latest_processed_date(processed)]
    /\ UNCHANGED <<extVars, rulesVars, apiVars, envVars, parseVars, mailbox, processed, marked,
                   watcherVars, backendVars>>

StoreNext ==
    \/ \E id \in StoreIds, ts \in StoreTimestamps : StoreMark(id, ts)
    \/ \E id \in StoreIds : StoreIsProcessed(id)
    \/ StoreLatest

StoreSpec == StoreInit /\ [][StoreNext]_vars

\* ------------------------------------------ specification: the watcher
\* Mail arrives, and gmail_watcher_main runs again and again; the provider,
\* the topic and the store may fail, MaxFaults times in all.

MsgIds == {"m1", "m2", "m3"}

\* The internalDate a message may carry; later messages carry later ones.
MailTimes ==
    [id \in MsgIds |-> IF id = "m1" THEN {StrOf(5)}
                       ELSE IF id = "m2" THEN {StrOf(7), StrOf(9)}
                       ELSE {StrOf(10), StrOf(12)}]

Earlier(id) == IF id = "m1" THEN {} ELSE IF id = "m2" THEN {"m1"} ELSE {"m1", "m2"}

\* The message the provider returns for an id (format='full').
MailMessage(id, internalDate) ==
    IF id = "m1"
    THEN [id |-> id, internalDate |-> internalDate,
          from |-> <<"Venmo", "<", VENMO_EMAIL, ">">>,
          subject |-> <<"You", "paid", "Alice", "$", "12.34">>,
          payload |-> [parts |-> <<>>, body |-> PlainHtml]]
    ELSE IF id = "m2"
    THEN [id |-> id, internalDate |-> internalDate,
          from |-> <<"American Express", "<", AMEX_EMAIL, ">">>,
          subject |-> <<"Large", "Purchase", "Approved">>,
          payload |-> [parts |-> << [mimeType |-> "text/plain", body |-> PlainHtml,
                                     parts |-> <<>>],
                                    [mimeType |-> "text/html", body |-> AmexHtml,
                                     parts |-> <<>>] >>,
                       body |-> <<>>]]
    ELSE [id |-> id, internalDate |-> internalDate,
          from |-> <<"Chase", "<", CHASE_EMAIL, ">">>,
          subject |-> <<"You", "sent", "$", "50.00", "to", "Alice">>,
          payload |-> [parts |-> << [mimeType |-> "multipart/related", body |-> <<>>,
                                     parts |-> << [mimeType |-> "text/html",
                                                   body |-> ChaseTransferHtml] >>] >>,
                       body |-> <<>>]]

\* The ids of a set of messages, the latest message first.
RECURSIVE NewestFirst(_, _)
NewestFirst(box, ids) ==
    IF ids = {} THEN <<>>
    ELSE LET top == CHOOSE k \in ids : \A l \in ids : IntOf(box[l]) <= IntOf(box[k])
         IN <<top>> \o NewestFirst(box, ids \ {top})

\* A variant whose query has no lower bound: every message of the five
\* institutions is listed.
list_messages_unbounded(box, environ, since_date, request_ok) ==
    IF ~request_ok THEN <<>>
    ELSE NewestFirst(box,
            {k \in DOMAIN box :
                extract_email(MailMessage(k, box[k]).from)
                    \in {environ[n] : n \in InstitutionVars}})

\* list_messages with the query of gmail_watcher_main: the messages of the
\* five institutions received on or after since_date (no lower bound when
\* there is none); the empty list when the provider fails.
list_messages(box, environ, since_date, request_ok) ==
    IF ~request_ok THEN <<>>
    ELSE NewestFirst(box,
            {k \in DOMAIN box :
                /\ extract_email(MailMessage(k, box[k]).from)
                       \in {environ[n] : n \in InstitutionVars}
                /\ since_date = NoDate \/ IntOf(box[k]) \div MsPerDay >= since_date})

Published(id) == \E i \in 1..Len(topic) : topic[i].message_id = id

WatcherInit ==
    /\ ExtIdle
    /\ env \in Envs
    /\ tz = 0
    /\ uuids = 0
    /\ ParseIdle
    /\ mailbox = EmptyMailbox
    /\ processed = EmptyColl
    /\ StoreIdle
    /\ WatcherIdle
    /\ BackendIdle
    /\ ApiIdle
    /\ RulesIdle

Deliver(id, internalDate) ==
    /\ id \notin DOMAIN mailbox
    /\ Earlier(id) \subseteq DOMAIN mailbox
    /\ mailbox' = SetDoc(mailbox, id, internalDate)
    /\ UNCHANGED <<extVars, rulesVars, apiVars, envVars, parseVars, processed, storeVars,
                   watcherVars, backendVars>>

\* Lines 284-309: the lower bound, the query and the listing. A failed
\* query of the store is caught and leaves the run without a lower bound
\* (line 258). Building the query ends the run with ValueError when an
\* address is not set.
WatcherStart(read_ok, request_ok) ==
    /\ w_pc = "idle"
    /\ runs < MaxRuns
    /\ runs' = runs + 1
    /\ faults + (IF read_ok THEN 0 ELSE 1) + (IF request_ok THEN 0 ELSE 1) <= MaxFaults
    /\ faults' = faults + (IF read_ok THEN 0 ELSE 1) + (IF request_ok THEN 0 ELSE 1)
    /\ w_since' = Append(w_since, IF read_ok THEN get_latest_processed_date(processed)
                                   ELSE NoDate)
    /\ IF MissingVariable(env)
       THEN /\ request_ok
            /\ w_error' = "ValueError"
            /\ crashes' = crashes + 1
            /\ UNCHANGED <<w_pc, w_messages, w_fetch_failed, w_skipped, w_data>>
       ELSE /\ w_messages' = list_messages(mailbox, env, w_since'[Len(w_since')], request_ok)
            /\ w_pc' = "loop"
            /\ w_error' = ""
            /\ w_fetch_failed' = FALSE
            /\ w_skipped' = {}
            /\ w_data' = NoData
            /\ UNCHANGED crashes
    /\ UNCHANGED <<writerVars, ruleApiVars, bodyVars, rulesVars, apiVars, backendVars, envVars,
                   parseVars, mailbox, processed, storeVars, topic>>

\* Lines 310-325: the next listed message is skipped when it is recorded as
\* processed, and fetched otherwise; a key that get_message left out ends
\* the run with KeyError.
WatcherFetch(request_ok) ==
    /\ w_pc = "loop"
    /\ w_messages # <<>>
    /\ LET msg_id == Head(w_messages)
           message_content == get_message(MailMessage(msg_id, mailbox[msg_id]), request_ok)
       IN IF is_message_processed(processed, msg_id)
          THEN /\ request_ok
               /\ w_skipped' = w_skipped \cup {msg_id}
               /\ w_messages' = Tail(w_messages)
               /\ UNCHANGED <<w_pc, w_data, w_error, w_fetch_failed, crashes, faults>>
          ELSE /\ request_ok \/ faults < MaxFaults
               /\ faults' = IF request_ok THEN faults ELSE faults + 1
               /\ w_fetch_failed' = (w_fetch_failed \/ ~request_ok)
               /\ IF {"from", "body", "subject", "message_timestamp"}
                         \subseteq message_content.keys
                  THEN /\ w_data' = [message_id |-> msg_id,
                                     message_sender |-> extract_email(message_content.from),
                                     message_subject |-> message_content.subject,
                                     message_timestamp |-> message_content.message_timestamp,
                                     message_body |->
                                         watcher_extract_html_content(message_content.body)]
                       /\ w_pc' = "publish"
                       /\ UNCHANGED <<w_error, crashes>>
                  ELSE /\ w_pc' = "idle"
                       /\ w_error' = "KeyError"
                       /\ crashes' = crashes + 1
                       /\ UNCHANGED w_data
               /\ UNCHANGED <<w_skipped, w_messages>>
    /\ UNCHANGED <<extVars, rulesVars, apiVars, backendVars, envVars, parseVars, mailbox, processed,
                   storeVars, topic, runs>>

\* Line 326: publish_message waits for the result of the publication.
WatcherPublish(publish_ok) ==
    /\ w_pc = "publish"
    /\ publish_ok \/ faults < MaxFaults
    /\ faults' = IF publish_ok THEN faults ELSE faults + 1
    /\ IF publish_ok
       THEN /\ topic' = Append(topic, w_data)
            /\ w_pc' = "mark"
            /\ UNCHANGED <<w_error, crashes>>
       ELSE /\ w_pc' = "idle"
            /\ w_error' = "PublishError"
            /\ crashes' = crashes + 1
            /\ UNCHANGED topic
    /\ UNCHANGED <<extVars, rulesVars, apiVars, backendVars, envVars, parseVars, mailbox, processed,
                   storeVars, w_messages, w_data, w_fetch_failed, w_skipped, runs>>

\* Lines 327-330: the record of the message is written; then the next message.
WatcherMark(write_ok) ==
    /\ w_pc = "mark"
    /\ write_ok \/ faults < MaxFaults
    /\ faults' = IF write_ok THEN faults ELSE faults + 1
    /\ LET r == mark_message_as_processed(processed, w_data.message_id,
                                          w_data.message_timestamp)
       IN IF write_ok /\ r.exc = ""
          THEN /\ processed' = r.coll
               /\ w_messages' = Tail(w_messages)
               /\ w_pc' = "loop"
               /\ UNCHANGED <<w_error, crashes>>
          ELSE /\ w_pc' = "idle"
               /\ w_error' = IF write_ok THEN r.exc ELSE "FirestoreError"
               /\ crashes' = crashes + 1
               /\ UNCHANGED <<processed, w_messages>>
    /\ UNCHANGED <<extVars, rulesVars, apiVars, backendVars, envVars, parseVars, mailbox, storeVars,
                   topic, w_data, w_fetch_failed, w_skipped, runs>>

\* The loop is over: the run returns.
WatcherFinish ==
    /\ w_pc = "loop"
    /\ w_messages = <<>>
    /\ w_pc' = "idle"
    /\ UNCHANGED <<extVars, rulesVars, apiVars, backendVars, envVars, parseVars, mailbox, processed,
                   storeVars, topic, w_messages, w_data, w_error, w_fetch_failed, w_skipped,
                   runs, crashes, faults>>

\* The push request the subscription makes for a message of the topic: the
\* envelope with the published dictionary under message.data. json.dumps
\* followed by base64 and their inverses give back a dictionary of strings
\* key by key.
PushRequest(message_data) == [json |-> <<[message |-> [data |-> message_data]]>>]

\* write_transactions_to_database: the document is the dictionary without
\* its key transaction_id, stored under that id; ValueError without one.
write_transactions_to_database(coll, transaction_data) ==
    LET transaction_id == IF "transaction_id" \in DOMAIN transaction_data
                          THEN transaction_data.transaction_id ELSE None
    IN IF transaction_id # None /\ transaction_id # ""
       THEN [coll |-> SetDoc(coll, transaction_id,
                             [k \in DOMAIN transaction_data \ {"transaction_id"} |->
                                  transaction_data[k]]),
             exc |-> ""]
       ELSE [coll |-> coll, exc |-> "ValueError"]

\* process_pubsub_trigger: 400 for a request without a body, otherwise the
\* decoded dictionary is written as it is; an exception of the write leaves
\* the handler.
process_pubsub_trigger(coll, request) ==
    IF request.json = <<>>
    THEN [coll |-> coll, status |-> 400, exc |-> ""]
    ELSE LET written == write_transactions_to_database(coll, request.json[1].message.data)
         IN [coll |-> written.coll,
             status |-> IF written.exc = "" THEN 200 ELSE 500,
             exc |-> written.exc]

\* The subscription pushes the next message of the topic to the writer.
WriterPush ==
    /\ delivered < Len(topic)
    /\ delivered' = delivered + 1
    /\ sink' = process_pubsub_trigger(sink, PushRequest(topic[delivered + 1])).coll
    /\ writer_out' = Append(writer_out,
           [status |-> process_pubsub_trigger(sink, PushRequest(topic[delivered + 1])).status,
            exc |-> process_pubsub_trigger(sink, PushRequest(topic[delivered + 1])).exc])
    /\ UNCHANGED <<w_since, ruleApiVars, bodyVars, rulesVars, apiVars, backendVars, envVars,
                   parseVars, mailbox, processed, storeVars, watcherVars>>

WatcherNext ==
    \/ \E id \in MsgIds : \E t \in MailTimes[id] : Deliver(id, t)
    \/ \E read_ok, request_ok \in BOOLEAN : WatcherStart(read_ok, request_ok)
    \/ \E ok \in BOOLEAN : WatcherFetch(ok)
    \/ \E ok \in BOOLEAN : WatcherPublish(ok)
    \/ \E ok \in BOOLEAN : WatcherMark(ok)
    \/ WatcherFinish
    \/ WriterPush

WatcherSpec == WatcherInit /\ [][WatcherNext]_vars

\* ------------------------------------------ specification: the backend
\* Time passes, mail arrives, and POST /transactions/ is called again and
\* again; the provider and the database may fail, MaxFaults times in all.

BackendMsgIds == {"m1", "m2"}

\* Offsets of local time from UTC, in milliseconds.
Zones == {-1, 0, 1}

\* A row of the table transaction_rules, with the columns init_db creates.
TransactionRule(rule_id, original_name, renamed_name, created_date) ==
    [rule_id |-> rule_id, merchant_original_name |-> original_name,
     merchant_renamed_name |-> renamed_name, rule_created_date |-> created_date]

\* SELECT merchant_original_name, merchant_renamed_name FROM transaction_rules:
\* the rows in rowid order, each with the two columns selected.
SelectRuleNames(table) ==
    [i \in 1..Len(table) |->
        [keys |-> {"merchant_original_name", "merchant_renamed_name"},
         merchant_original_name |-> table[i].merchant_original_name,
         merchant_renamed_name |-> table[i].merchant_renamed_name]]

\* The table transaction_rules as the database file holds it when the
\* backend starts: init_db creates it empty, and a file that exists is used
\* with the rows it has.
StoredRuleTables ==
    {<<>>, <<TransactionRule("rule-1", <<"Alice">>, <<"Groceries">>, <<0, 0>>)>>}

RECURSIVE Replace(_, _, _)
\* s.replace(old, new): every occurrence of old, from the left and without
\* overlap; an empty old stands before every element and at the end.
Replace(s, old, new) ==
    IF old = <<>>
    THEN IF s = <<>> THEN new ELSE new \o <<Head(s)>> \o Replace(Tail(s), old, new)
    ELSE IF Len(s) < Len(old) THEN s
    ELSE IF SubSeq(s, 1, Len(old)) = old
    THEN new \o Replace(SubSeq(s, Len(old) + 1, Len(s)), old, new)
    ELSE <<Head(s)>> \o Replace(Tail(s), old, new)

\* A row of rules as backfill_transaction_rules selects it.
Rule(pattern, replacement) ==
    [keys |-> {"pattern", "replacement"}, pattern |-> pattern, replacement |-> replacement]

\* Every rule applied to the merchant as given: the last rule that matches
\* it decides.
apply_rules_engine_independent(merchant, rules) ==
    LET hits == {i \in 1..Len(rules) : Contains(merchant, rules[i].pattern)}
        last == CHOOSE i \in hits : \A j \in hits : j <= i
    IN [merchant |-> IF hits = {} THEN merchant
                     ELSE Replace(merchant, rules[last].pattern, rules[last].replacement),
        exc |-> ""]

RECURSIVE apply_rules_engine(_, _)
\* The merchant after the rules, each applied to the result of the one
\* before, and the exception that ended the call: rule['pattern'] of a row
\* without that column raises.
apply_rules_engine(merchant, rules) ==
    IF rules = <<>> THEN [merchant |-> merchant, exc |-> ""]
    ELSE IF ~({"pattern", "replacement"} \subseteq Head(rules).keys)
    THEN [merchant |-> merchant, exc |-> "IndexError"]
    ELSE apply_rules_engine(
             IF Contains(merchant, Head(rules).pattern)
             THEN Replace(merchant, Head(rules).pattern, Head(rules).replacement)
             ELSE merchant,
             Tail(rules))

\* datetime.now().strftime('%Y-%m-%d %H:%M:%S.%f'): the local time, as text.
get_current_datetime_string(clock, zone) == FormatDatetime(clock + zone * UsPerMs)

\* get_message of backend/utils.py: as the watcher's, the timestamp under
\* the key 'internalDate'.
backend_get_message(message, request_ok) ==
    LET c == get_message(message, request_ok)
    IN [keys |-> (c.keys \ {"message_timestamp"}) \cup
                 (IF "message_timestamp" \in c.keys THEN {"internalDate"} ELSE {}),
        subject |-> c.subject, from |-> c.from, internalDate |-> c.message_timestamp,
        body |-> c.body]

\* Lines 460-473 of email_parser_main for one fetched message: KeyError
\* when get_message left a key out, else the outcome of the parse.
ParseContent(content, last_refresh_datetime, uuid, zone, environ) ==
    IF {"from", "body", "subject", "internalDate"} \subseteq content.keys
    THEN parse_transaction_details(content.subject, extract_email(content.from),
             content.internalDate, extract_html_content(content.body),
             last_refresh_datetime, uuid, zone, environ)
    ELSE Raised("KeyError")

\* The outcome of the loop of email_parser_main: the transactions found,
\* each with the message it came from, and the exception that ended the call.
ParsedBatch(outcome) ==
    LET failed == {i \in 1..Len(outcome) : outcome[i].out.kind = "raise"}
        IsTxn(o) == o.out.kind = "txn"
        found == SelectSeq(outcome, IsTxn)
    IN [listed |-> Len(outcome),
        exc |-> IF failed = {} THEN ""
                ELSE outcome[CHOOSE i \in failed : \A j \in failed : i <= j].out.exc,
        transactions |-> [i \in 1..Len(found) |-> [src |-> found[i].src,
                                                   txn |-> found[i].out.txn]]]

\* The loop of email_parser_main over the listed messages; fail_at is the
\* position of the message whose fetch fails, 0 for none.
ParseMessages(box, messages, environ, zone, last_refresh_datetime, first_uuid, fail_at) ==
    ParsedBatch([i \in 1..Len(messages) |->
        [src |-> messages[i],
         out |-> ParseContent(
                     backend_get_message(MailMessage(messages[i], box[messages[i]]),
                                         i # fail_at),
                     last_refresh_datetime, generate_uuid(first_uuid + i), zone, environ)]])

\* email_parser_main: the messages received since the date of the
\* watermark are listed, fetched and parsed in turn.
email_parser_main(box, environ, zone, last_refresh_datetime, first_uuid, list_ok, fail_at) ==
    ParseMessages(box, list_messages(box, environ, last_refresh_datetime[1], list_ok),
                  environ, zone, last_refresh_datetime, first_uuid, fail_at)

StoredFrom(id) == {t \in transactions : t.src = id}

\* transaction_id is the primary key of the table transactions.
Stored(id) == \E t \in transactions : t.txn.transaction_id = id

BackendInit ==
    /\ WriterIdle
    /\ w_since = <<>>
    /\ BodyIdle
    /\ transaction_rules \in StoredRuleTables
    /\ rule_out = <<>>
    /\ env \in {FullEnv, Without("VENMO_EMAIL")}
    /\ tz \in Zones
    /\ uuids = 0
    /\ ParseIdle
    /\ mailbox = EmptyMailbox
    /\ processed = EmptyColl
    /\ StoreIdle
    /\ WatcherIdle
    /\ BackendIdle
    /\ ApiIdle
    /\ RulesIdle

Tick ==
    /\ now < MaxClock
    /\ now' = now + 1
    /\ UNCHANGED <<extVars, rulesVars, apiVars, envVars, parseVars, mailbox, processed, storeVars,
                   watcherVars, last_transaction_refresh, transactions, b_pc, b_pending,
                   b_error, refreshes>>

\* A message arrives: its internalDate is the time in milliseconds.
Arrive(id) ==
    /\ id \notin DOMAIN mailbox
    /\ Earlier(id) \subseteq DOMAIN mailbox
    /\ now >= UsPerMs
    /\ mailbox' = SetDoc(mailbox, id, StrOf(now \div UsPerMs))
    /\ UNCHANGED <<extVars, rulesVars, apiVars, envVars, parseVars, processed, storeVars,
                   watcherVars, backendVars>>

\* The handler after email_parser_main returned r, with n failures met.
RefreshParsed(r, n, fail_at) ==
    /\ faults + n <= MaxFaults
    /\ fail_at <= r.listed
    /\ faults' = faults + n
    /\ uuids' = uuids + r.listed
    /\ IF r.exc = ""
       THEN /\ b_pending' = r.transactions
            /\ b_pc' = "store"
            /\ b_error' = ""
       ELSE /\ b_pending' = <<>>
            /\ b_pc' = "idle"
            /\ b_error' = r.exc

\* routes.py lines 69-73: the stored watermark is read, the messages are
\* listed, fetched and parsed, and the rules are read.
RefreshBegin(list_ok, fail_at) ==
    /\ b_pc = "idle"
    /\ refreshes < MaxRefreshes
    /\ RefreshParsed(email_parser_main(mailbox, env, tz, last_transaction_refresh, uuids,
                                       list_ok, fail_at),
                     (IF list_ok THEN 0 ELSE 1) + (IF fail_at = 0 THEN 0 ELSE 1), fail_at)
    /\ refreshes' = refreshes + 1
    /\ UNCHANGED <<extVars, rulesVars, apiVars, env, tz, parseVars, mailbox, processed, storeVars,
                   topic, w_pc, w_messages, w_data, w_error, w_fetch_failed, w_skipped,
                   runs, crashes, now, last_transaction_refresh, transactions>>

\* routes.py lines 74-77: the next transaction goes through the rules and is
\* inserted; create_transaction commits each row, or raises HTTPException.
RefreshStore(write_ok) ==
    /\ b_pc = "store"
    /\ b_pending # <<>>
    /\ write_ok \/ faults < MaxFaults
    /\ faults' = IF write_ok THEN faults ELSE faults + 1
    /\ LET row == Head(b_pending)
           renamed == apply_rules_engine(row.txn.merchant, SelectRuleNames(transaction_rules))
       IN IF write_ok /\ renamed.exc = "" /\ ~Stored(row.txn.transaction_id)
          THEN /\ transactions' = transactions \cup
                      {[row EXCEPT !.txn.merchant = renamed.merchant]}
               /\ b_pending' = Tail(b_pending)
               /\ UNCHANGED <<b_pc, b_error>>
          ELSE /\ b_pc' = "idle"
               /\ b_error' = IF renamed.exc # "" THEN renamed.exc ELSE "HTTPException"
               /\ b_pending' = <<>>
               /\ UNCHANGED transactions
    /\ UNCHANGED <<extVars, rulesVars, apiVars, envVars, parseVars, mailbox, processed, storeVars,
                   topic, w_pc, w_messages, w_data, w_error, w_fetch_failed, w_skipped,
                   runs, crashes, now, last_transaction_refresh, refreshes>>

\* routes.py lines 79-86: every transaction is stored; the watermark becomes
\* the current local time.
RefreshFinish ==
    /\ b_pc = "store"
    /\ b_pending = <<>>
    /\ last_transaction_refresh' = get_current_datetime_string(now, tz)
    /\ b_pc' = "idle"
    /\ UNCHANGED <<extVars, rulesVars, apiVars, envVars, parseVars, mailbox, processed, storeVars,
                   watcherVars, now, transactions, b_pending, b_error, refreshes>>

BackendNext ==
    \/ Tick
    \/ \E id \in BackendMsgIds : Arrive(id)
    \/ \E ok \in BOOLEAN : \E fail_at \in 0..Cardinality(BackendMsgIds) :
           RefreshBegin(ok, fail_at)
    \/ \E ok \in BOOLEAN : RefreshStore(ok)
    \/ RefreshFinish

BackendSpec == BackendInit /\ [][BackendNext]_vars

\* ------------------------------------- specification: the rules engine
\* apply_rules_engine as a function of a merchant name and rule lists.
\* Names are spelt letter by letter, so that a pattern can match a part.

RuleChars == {"a", "b"}

Texts(n) == UNION {[1..k -> RuleChars] : k \in 0..n}

RulePool ==
    {Rule(<<"a">>, <<"b">>), Rule(<<"a">>, <<"a", "a">>), Rule(<<"a", "b">>, <<"b">>),
     Rule(<<>>, <<"b">>)}

RuleLists == UNION {[1..k -> RulePool] : k \in 0..MaxRules}

RulesInit ==
    /\ ExtIdle
    /\ EnvInit
    /\ ParseIdle
    /\ mailbox = EmptyMailbox
    /\ processed = EmptyColl
    /\ StoreIdle
    /\ WatcherIdle
    /\ BackendIdle
    /\ ApiIdle
    /\ r_merchant \in Texts(MaxMerchant)
    /\ r_rules1 \in RuleLists
    /\ r_rules2 \in RuleLists
    /\ r_out = NoRulesCall
    /\ ledger = <<>>
    /\ bf_out = NoBackfill

\* The engine is called with the two lists joined, with one list after the
\* other, and with the lists joined the other way round.
RulesApply ==
    /\ r_out.kind = "notrun"
    /\ r_out' = [kind |-> "done",
                 joined |-> apply_rules_engine(r_merchant, r_rules1 \o r_rules2),
                 staged |-> apply_rules_engine(
                                apply_rules_engine(r_merchant, r_rules1).merchant, r_rules2),
                 swapped |-> apply_rules_engine(r_merchant, r_rules2 \o r_rules1)]
    /\ UNCHANGED <<extVars, envVars, parseVars, mailbox, processed, storeVars, watcherVars,
                   backendVars, apiVars, r_merchant, r_rules1, r_rules2, ledger, bf_out>>

RulesNext == RulesApply

RulesSpec == RulesInit /\ [][RulesNext]_vars

\* ------------------------------------------ specification: the backfill
\* backfill_transaction_rules over a table rules and stored merchants.

LedgerIds == {"t1", "t2"}

\* backfill_transaction_rules: the merchants of the stored rows after the
\* call, the number of rows updated, and the exception that ended the call
\* (SELECT ... FROM rules without the table). The rows selected have the
\* columns pattern and replacement.
backfill_transaction_rules(table, rows) ==
    IF ~table.exists
    THEN [exc |-> "OperationalError", rows |-> rows, updated_count |-> 0]
    ELSE [exc |-> "",
          rows |-> [id \in DOMAIN rows |-> apply_rules_engine(rows[id], table.rows).merchant],
          updated_count |-> Cardinality({id \in DOMAIN rows :
                                apply_rules_engine(rows[id], table.rows).merchant # rows[id]})]

BackfillInit ==
    /\ ExtIdle
    /\ EnvInit
    /\ ParseIdle
    /\ mailbox = EmptyMailbox
    /\ processed = EmptyColl
    /\ StoreIdle
    /\ WatcherIdle
    /\ BackendIdle
    /\ rules_table \in {NoTable} \cup {Table(r) : r \in RuleLists}
    /\ edits = 0
    /\ r_merchant = <<>>
    /\ r_rules1 = <<>>
    /\ r_rules2 = <<>>
    /\ r_out = NoRulesCall
    /\ ledger \in [LedgerIds -> Texts(MaxMerchant)]
    /\ bf_out = NoBackfill

\* One call of backfill_transaction_rules; the rules stay as they are.
BackfillRun ==
    /\ bf_out.runs < MaxBackfills
    /\ ledger' = backfill_transaction_rules(rules_table, ledger).rows
    /\ bf_out' = [runs |-> bf_out.runs + 1,
                  exc |-> backfill_transaction_rules(rules_table, ledger).exc,
                  updated_count |->
                      backfill_transaction_rules(rules_table, ledger).updated_count,
                  rewritten |-> {id \in DOMAIN ledger : ledger'[id] # ledger[id]}]
    /\ UNCHANGED <<extVars, envVars, parseVars, mailbox, processed, storeVars, watcherVars,
                   backendVars, apiVars, r_merchant, r_rules1, r_rules2, r_out>>

BackfillNext == BackfillRun

BackfillSpec == BackfillInit /\ [][BackfillNext]_vars

\* ------------------------------- specification: the transaction routes
\* The backend with the routes that rewrite and delete stored transactions
\* and with the backfill of the rules, MaxEdits calls of them in all. The
\* state keeps the table, not the responses.

\* The fields of TransactionUpdate, and the transaction_id with them.
UpdateFields_with_id ==
    {"transaction_id", "transaction_date", "merchant", "bucket", "amount", "category",
     "subcategory", "account_name", "is_recurring"}

\* The fields of TransactionUpdate.
UpdateFields ==
    {"transaction_date", "merchant", "bucket", "amount", "category", "subcategory",
     "account_name", "is_recurring"}

\* TransactionUpdate(**body): a field the model does not have is dropped, a
\* field the body does not give is None.
TransactionUpdate(body) ==
    [f \in UpdateFields |-> IF f \in DOMAIN body THEN body[f] ELSE None]

\* create_patch_query: the columns the UPDATE sets.
create_patch_query(fields) == {f \in DOMAIN fields : fields[f] # None}

\* The row after UPDATE transactions SET <cols> WHERE transaction_id = ?.
UpdatedRow(t, fields) ==
    [t EXCEPT !.txn = [c \in DOMAIN t.txn |->
                         IF c \in create_patch_query(fields) THEN fields[c] ELSE t.txn[c]]]

\* update_transaction: the status of the response and the rows afterwards.
update_transaction(rows, transaction_id, body) ==
    LET hit == {t \in rows : t.txn.transaction_id = transaction_id}
    IN IF hit = {} THEN [outcome |-> "404", rows |-> rows]
       ELSE IF create_patch_query(TransactionUpdate(body)) = {}
       THEN [outcome |-> "400", rows |-> rows]
       ELSE IF \E t \in hit : \E u \in rows \ hit :
                   UpdatedRow(t, TransactionUpdate(body)).txn.transaction_id
                       = u.txn.transaction_id
       THEN [outcome |-> "500", rows |-> rows]
       ELSE [outcome |-> "200",
             rows |-> (rows \ hit) \cup {UpdatedRow(t, TransactionUpdate(body)) : t \in hit}]

\* delete_transaction: the status of the response and the rows afterwards.
delete_transaction(rows, transaction_id) ==
    LET hit == {t \in rows : t.txn.transaction_id = transaction_id}
    IN IF hit = {} THEN [outcome |-> "404", rows |-> rows]
       ELSE [outcome |-> "200", rows |-> rows \ hit]

\* SELECT transaction_id, merchant FROM transactions: each stored merchant
\* name, taken as one unit of text.
MerchantColumn(rows) ==
    [id \in {t.txn.transaction_id : t \in rows} |->
        <<(CHOOSE t \in rows : t.txn.transaction_id = id).txn.merchant>>]

PatchIds == {"uuid-1", "uuid-0"}

PatchBodies ==
    {[merchant |-> "Corner Shop"], [transaction_id |-> "uuid-7", category |-> "Food"],
     [k \in {} |-> ""]}

\* A database file that exists is used as it is: the table rules is absent,
\* as init_db leaves it, or present with one rule.
RulesTables == {NoTable, Table(<<Rule(<<"Alice">>, <<"Groceries">>)>>)}

ApiInit ==
    /\ ExtIdle
    /\ EnvInit
    /\ ParseIdle
    /\ mailbox = EmptyMailbox
    /\ processed = EmptyColl
    /\ StoreIdle
    /\ WatcherIdle
    /\ BackendIdle
    /\ rules_table \in RulesTables
    /\ edits = 0
    /\ RulesIdle

\* PATCH /transactions/{transaction_id}
PatchTransaction(transaction_id, body) ==
    /\ edits < MaxEdits
    /\ edits' = edits + 1
    /\ transactions' = update_transaction(transactions, transaction_id, body).rows
    /\ UNCHANGED <<extVars, envVars, parseVars, mailbox, processed, storeVars, watcherVars, now,
                   last_transaction_refresh, b_pc, b_pending, b_error, refreshes,
                   rules_table, rulesVars>>

\* DELETE /transactions/{transaction_id}
DeleteTransaction(transaction_id) ==
    /\ edits < MaxEdits
    /\ edits' = edits + 1
    /\ transactions' = delete_transaction(transactions, transaction_id).rows
    /\ UNCHANGED <<extVars, envVars, parseVars, mailbox, processed, storeVars, watcherVars, now,
                   last_transaction_refresh, b_pc, b_pending, b_error, refreshes,
                   rules_table, rulesVars>>

\* backfill_transaction_rules over the stored transactions.
BackfillCall ==
    /\ edits < MaxEdits
    /\ edits' = edits + 1
    /\ transactions' =
           {[t EXCEPT !.txn.merchant =
                 Join(backfill_transaction_rules(rules_table, MerchantColumn(transactions))
                          .rows[t.txn.transaction_id])] : t \in transactions}
    /\ UNCHANGED <<extVars, envVars, parseVars, mailbox, processed, storeVars, watcherVars, now,
                   last_transaction_refresh, b_pc, b_pending, b_error, refreshes,
                   rules_table, rulesVars>>

ApiNext ==
    \/ BackendNext
    \/ \E id \in PatchIds : \E body \in PatchBodies : PatchTransaction(id, body)
    \/ \E id \in PatchIds : DeleteTransaction(id)
    \/ BackfillCall

ApiSpec == ApiInit /\ [][ApiNext]_vars

\* ------------------------------------- specification: the rule handlers
\* add_transaction_rule and update_transaction_rule over the database that
\* init_db creates: the tables transactions and transaction_rules, and no
\* table rules. Names are spelt letter by letter.

\* The columns of the table rules, when the file has one.
RulesColumns == {"pattern", "replacement"}

\* The columns INSERT INTO rules (...) names in add_transaction_rule.
InsertColumns ==
    {"rule_id", "merchant_original_name", "merchant_renamed_name", "rule_created_date"}

\* db.execute('INSERT INTO rules (...) VALUES (...)'): the table after the
\* statement and the exception it raises.
InsertRule(table, row) ==
    IF table.exists /\ InsertColumns \subseteq RulesColumns
    THEN [exc |-> "", table |-> Table(Append(table.rows, row))]
    ELSE [exc |-> "OperationalError", table |-> table]

\* The primary key of transaction_rules, and the column that
\* update_transaction_rule names in the WHERE clause of its UPDATE.
RulePrimaryKey == "rule_id"
PatchPrimaryKey == "transaction_rule_id"

\* add_transaction_rule: the status of the response, the exception caught,
\* the number of backfill calls made, and the tables afterwards.
add_transaction_rule(rules, merchants, rule, rule_id, current_datetime) ==
    LET inserted == InsertRule(rules,
                        [keys |-> InsertColumns, rule_id |-> rule_id,
                         merchant_original_name |-> rule.merchant_original_name,
                         merchant_renamed_name |-> rule.merchant_renamed_name,
                         rule_created_date |-> current_datetime])
        backfill == backfill_transaction_rules(inserted.table, merchants)
    IN IF inserted.exc # ""
       THEN [status |-> 400, exc |-> inserted.exc, backfills |-> 0,
             rules |-> rules, merchants |-> merchants]
       ELSE IF backfill.exc # ""
       THEN [status |-> 400, exc |-> backfill.exc, backfills |-> 1,
             rules |-> inserted.table, merchants |-> merchants]
       ELSE [status |-> 200, exc |-> "", backfills |-> 1,
             rules |-> inserted.table, merchants |-> backfill.rows]

\* update_transaction_rule: 404 for an id the table does not hold; otherwise
\* the UPDATE names its row by PatchPrimaryKey, which has to be a column of
\* the table, and the backfill follows the UPDATE. The row of the response
\* is looked up in transactions under the id of the rule: 404 at the end.
update_transaction_rule(table, rules, merchants, transaction_rule_id, update) ==
    LET hit == {i \in 1..Len(table) : table[i].rule_id = transaction_rule_id}
        patched == [i \in 1..Len(table) |->
                       IF i \in hit
                       THEN [c \in DOMAIN table[i] |->
                                IF c \in create_patch_query(update) THEN update[c]
                                ELSE table[i][c]]
                       ELSE table[i]]
        backfill == backfill_transaction_rules(rules, merchants)
    IN IF hit = {}
       THEN [status |-> 404, exc |-> "", backfills |-> 0, table |-> table,
             merchants |-> merchants]
       ELSE IF create_patch_query(update) = {}
       THEN [status |-> 400, exc |-> "", backfills |-> 0, table |-> table,
             merchants |-> merchants]
       ELSE IF PatchPrimaryKey # RulePrimaryKey
       THEN [status |-> 500, exc |-> "OperationalError", backfills |-> 0, table |-> table,
             merchants |-> merchants]
       ELSE IF backfill.exc # ""
       THEN [status |-> 500, exc |-> backfill.exc, backfills |-> 1, table |-> patched,
             merchants |-> merchants]
       ELSE [status |-> 404, exc |-> "", backfills |-> 1, table |-> patched,
             merchants |-> backfill.rows]

\* The rules a request may carry.
RuleBodies ==
    {[merchant_original_name |-> <<"a">>, merchant_renamed_name |-> <<"b">>],
     [merchant_original_name |-> <<"b">>, merchant_renamed_name |-> <<"a", "a">>]}

RuleUpdates ==
    {[merchant_original_name |-> <<"a">>, merchant_renamed_name |-> <<"a", "b">>,
      rule_created_date |-> <<0, 1>>]}

RuleIds == {"rule-1", "rule-9"}

RuleApiInit ==
    /\ EnvInit
    /\ ParseIdle
    /\ mailbox = EmptyMailbox
    /\ processed = EmptyColl
    /\ StoreIdle
    /\ WatcherIdle
    /\ BackendIdle
    /\ rules_table \in {NoTable, Table(<<>>)}
    /\ edits = 0
    /\ r_merchant = <<>>
    /\ r_rules1 = <<>>
    /\ r_rules2 = <<>>
    /\ r_out = NoRulesCall
    /\ ledger \in [LedgerIds -> Texts(MaxMerchant)]
    /\ bf_out = NoBackfill
    /\ WriterIdle
    /\ w_since = <<>>
    /\ BodyIdle
    /\ transaction_rules \in
           {<<>>, <<TransactionRule("rule-1", <<"b">>, <<"a">>, <<0, 0>>)>>}
    /\ rule_out = <<>>

\* POST /transaction_rules/
AddRule(rule) ==
    /\ Len(rule_out) < MaxRuleCalls
    /\ uuids' = uuids + 1
    /\ LET r == add_transaction_rule(rules_table, ledger, rule, generate_uuid(uuids + 1),
                                     get_current_datetime_string(now, tz))
       IN /\ rules_table' = r.rules
          /\ ledger' = r.merchants
          /\ rule_out' = Append(rule_out,
                 [op |-> "create", rule |-> rule, status |-> r.status, exc |-> r.exc,
                  backfills |-> r.backfills])
    /\ UNCHANGED <<writerVars, w_since, bodyVars, transaction_rules, env, tz, parseVars,
                   mailbox, processed, storeVars, watcherVars, backendVars, edits,
                   r_merchant, r_rules1, r_rules2, r_out, bf_out>>

\* PATCH /transaction_rules/{transaction_rule_id}
UpdateRule(transaction_rule_id, update) ==
    /\ Len(rule_out) < MaxRuleCalls
    /\ LET r == update_transaction_rule(transaction_rules, rules_table, ledger,
                                        transaction_rule_id, update)
       IN /\ transaction_rules' = r.table
          /\ ledger' = r.merchants
          /\ rule_out' = Append(rule_out,
                 [op |-> IF r.status = 404 /\ r.backfills = 0 THEN "unknown" ELSE "update",
                  rule |-> [merchant_original_name |-> update.merchant_original_name,
                            merchant_renamed_name |-> update.merchant_renamed_name],
                  status |-> r.status, exc |-> r.exc, backfills |-> r.backfills])
    /\ UNCHANGED <<writerVars, w_since, bodyVars, envVars, parseVars, mailbox, processed,
                   storeVars, watcherVars, backendVars, apiVars, r_merchant, r_rules1,
                   r_rules2, r_out, bf_out>>

RuleApiNext ==
    \/ \E rule \in RuleBodies : AddRule(rule)
    \/ \E id \in RuleIds : \E update \in RuleUpdates : UpdateRule(id, update)

RuleApiSpec == RuleApiInit /\ [][RuleApiNext]_vars

\* ------------------------------------ specification: the message body
\* get_message of the watcher and of the backend, as functions of a message
\* whose payload has up to MaxParts parts.

PartTypes == {"text/plain", "text/html", "multipart/related"}

\* Part i of a payload: its own body, and for multipart/related one child.
Part(i, mimeType) ==
    IF mimeType = "multipart/related"
    THEN [mimeType |-> mimeType, body |-> <<>>,
          parts |-> << [mimeType |-> "text/html",
                        body |-> <<P(<<"child", "of", "part", ToString(i)>>)>>] >>]
    ELSE [mimeType |-> mimeType, body |-> <<P(<<"part", ToString(i)>>)>>, parts |-> <<>>]

\* The payloads of zero to MaxParts parts; without parts the body is the
\* payload's own.
Payloads ==
    {[parts |-> [i \in DOMAIN types |-> Part(i, types[i])], body |-> <<P(<<"single">>)>>] :
         types \in UNION {[1..n -> PartTypes] : n \in 0..MaxParts}}

BodyInit ==
    /\ EnvInit
    /\ ParseIdle
    /\ mailbox = EmptyMailbox
    /\ processed = EmptyColl
    /\ StoreIdle
    /\ WatcherIdle
    /\ BackendIdle
    /\ ApiIdle
    /\ RulesIdle
    /\ WriterIdle
    /\ w_since = <<>>
    /\ RuleApiIdle
    /\ \E payload \in Payloads :
           msg = [id |-> "m1", internalDate |-> StrOf(5),
                  from |-> <<"Wells Fargo", "<", WELLSFARGO_EMAIL, ">">>,
                  subject |-> <<"Account", "update">>, payload |-> payload]
    /\ msg_out = <<>>

\* GmailService.get_message of the watcher is called for the message.
BodyWatcher(request_ok) ==
    /\ "watcher" \notin DOMAIN msg_out
    /\ msg_out' = SetDoc(msg_out, "watcher", get_message(msg, request_ok))
    /\ UNCHANGED <<writerVars, w_since, ruleApiVars, msg, rulesVars, apiVars, envVars,
                   parseVars, mailbox, processed, storeVars, watcherVars, backendVars>>

\* get_message of backend/utils.py is called for the message.
BodyBackend(request_ok) ==
    /\ "backend" \notin DOMAIN msg_out
    /\ msg_out' = SetDoc(msg_out, "backend",
                         [backend_get_message(msg, request_ok) EXCEPT
                              !.keys = @ \ {"internalDate"}])
    /\ UNCHANGED <<writerVars, w_since, ruleApiVars, msg, rulesVars, apiVars, envVars,
                   parseVars, mailbox, processed, storeVars, watcherVars, backendVars>>

BodyNext ==
    \/ \E ok \in BOOLEAN : BodyWatcher(ok)
    \/ \E ok \in BOOLEAN : BodyBackend(ok)

BodySpec == BodyInit /\ [][BodyNext]_vars

\* ------------------------------------------------------------- claims

OutOfScope ==
    FromTimestampUtc(call.email_timestamp) <= ParseDatetimeUtc(call.last_update_time)

Configured == {env[n] : n \in InstitutionVars}

Quiet(out) == out.kind \in {"notrun", "none"}

\* The rule that the sender and the subject of the call select, and its run.
CallRule ==
    Dispatch(call.subject, call.from_email, call.email_timestamp, call.email_content,
             "uuid", tz, env, TRUE)

Malformed == CallRule.found /\ RunSteps(CallRule.steps).exc # ""

\* C1 as stated: a message at or before the watermark yields no transaction
\* from any extraction engine, the backend functions and the cloud parser alike.
C1_ScopeFilterEveryEngine ==
    OutOfScope => Quiet(out_utils) /\ Quiet(out_legacy) /\ Quiet(out_cloud)

\* C1 amended: a message at or before the watermark yields no transaction
\* from the backend extraction functions (utils.py and gmail_parser.py),
\* whatever its sender, subject and body are.
C1_ScopeFilterBackend ==
    OutOfScope => Quiet(out_utils) /\ Quiet(out_legacy)

\* A well-formed Venmo payment at or before the watermark: the backend call
\* returned nothing although the cloud parser extracts it.
C1_Witness ==
    /\ OutOfScope
    /\ out_utils = NoTxn
    /\ out_legacy = NoTxn
    /\ out_cloud.kind = "txn"
    /\ FromTimestampUtc(call.email_timestamp) = ParseDatetimeUtc(call.last_update_time)

\* C7: an in-scope message whose sender is none of the five configured
\* addresses yields no transaction and no exception, whatever the subject
\* and the body are.
C7_UnknownSenderYieldsNone ==
    (~OutOfScope /\ call.from_email \notin Configured)
        => Quiet(out_utils) /\ Quiet(out_legacy) /\ Quiet(out_cloud)

\* An in-scope message of an unknown sender whose subject and body would
\* trigger and satisfy the Wells Fargo rule, parsed by every engine.
C7_Witness ==
    /\ ~OutOfScope
    /\ call.from_email = OTHER_EMAIL
    /\ WellsFargoTrigger(call.subject)
    /\ call.email_content = extract_html_content(WellsFargoHtml)
    /\ out_utils = NoTxn
    /\ out_legacy = NoTxn
    /\ out_cloud = NoTxn

\* C8: a triggered rule with a missing pattern yields no transaction and no
\* exception leaves the extraction call.
C8_MalformedYieldsNone ==
    (~OutOfScope /\ Malformed)
        => Quiet(out_utils) /\ Quiet(out_legacy) /\ Quiet(out_cloud)

\* ---------------------------------- claims: the processed-message store

MessageIds == StoreIds \ {None}

\* The largest stored timestamp, read as a number.
NumericLatest(coll) ==
    CHOOSE n \in {IntOf(coll[k].timestamp) : k \in DOMAIN coll} :
        \A k \in DOMAIN coll : IntOf(coll[k].timestamp) <= n

\* C4: is_message_processed(id) is false as long as
\* mark_message_as_processed was never called for id and true ever after,
\* whatever other ids were marked in between; every answer the store gave
\* agrees with it.
C4_ProcessedIffMarked ==
    /\ \A id \in MessageIds : is_message_processed(processed, id) <=> id \in marked
    /\ (store_out.op = "is_processed" /\ store_out.id \in MessageIds)
           => (store_out.ret <=> store_out.id \in marked)

\* m1 was marked, then another id, and the store still answers true for m1.
C4_Witness ==
    /\ store_out.op = "is_processed"
    /\ store_out.id = "m1"
    /\ store_out.ret
    /\ "m2" \in marked
    /\ processed["m1"].timestamp # processed["m2"].timestamp

\* C5: mark_message_as_processed called with an empty or an absent id fails
\* with the invalid-argument error (ValueError) and no record is written.
C5_EmptyIdRejected ==
    /\ (store_out.op = "mark" /\ store_out.id \in {"", None})
           => store_out.exc = "ValueError"
    /\ DOMAIN processed \subseteq {"m1", "m2"}

\* C6: get_latest_processed_date returns the UTC date of the record whose
\* timestamp is numerically the largest, and none when there is no record.
C6_LatestIsNumericMax ==
    store_out.op = "latest"
        => store_out.date = IF DOMAIN processed = {} THEN NoDate
                            ELSE NumericLatest(processed) \div MsPerDay

\* ----------------------------------------------- claims: the watcher

TimesPublished(id) == Cardinality({i \in 1..Len(topic) : topic[i].message_id = id})

\* C2: as long as every run of gmail_watcher_main ran to completion, no
\* message id was published more than once: a message recorded as processed
\* is skipped by every later run.
C2_PublishedAtMostOnce ==
    crashes = 0 => \A id \in MsgIds : TimesPublished(id) <= 1

\* Two completed runs: the second listed a message the first had published,
\* skipped it and published a later one.
C2_Witness ==
    /\ runs >= 2
    /\ crashes = 0
    /\ w_pc = "idle"
    /\ "m1" \in w_skipped
    /\ Published("m1")
    /\ Published("m2")

\* C9: a failure of the provider while a message is fetched does not end
\* the run with an exception.
C9_FetchFailureTolerated ==
    w_fetch_failed => w_error = ""

\* C10: whenever no run is under way, each message is either published and
\* recorded as processed, or neither.
C10_PublishedIffMarked ==
    w_pc = "idle" => \A id \in MsgIds : Published(id) <=> is_message_processed(processed, id)

\* ----------------------------------------------- claims: the backend

\* C3: whatever calls of refresh_transactions were made, complete or
\* failed part-way through storing and repeated, no mailbox message has more
\* than one stored transaction.
C3_StoredAtMostOnce ==
    \A id \in BackendMsgIds : Cardinality(StoredFrom(id)) <= 1

\* -------------------------------------- claims: the watcher, re-running

\* The messages a stopped run leaves unhandled: those still on its list
\* that have no processed record.
Unhandled == {w_messages[i] : i \in 1..Len(w_messages)} \ DOMAIN processed

\* C11: the run that follows a run an exception ended, and whose listing
\* succeeds, lists every message the stopped run had listed and not handled.
C11_UnhandledRelisted ==
    [][(w_pc = "idle" /\ w_pc' = "loop" /\ w_error # "" /\ faults' = faults)
          => \A id \in Unhandled : \E j \in 1..Len(w_messages') : w_messages'[j] = id]_vars

\* ------------------------------------------------------ claims: Venmo

Outs == {out_utils, out_legacy, out_cloud}

\* The tokens of the subject after its first '$', up to the next one.
AfterDollar(subject) ==
    LET d == CHOOSE i \in 1..Len(subject) :
                 subject[i] = "$" /\ \A j \in 1..(i - 1) : subject[j] # "$"
        rest == {j \in (d + 1)..Len(subject) : subject[j] = "$"}
    IN Join(SubSeq(subject, d + 1,
                   IF rest = {} THEN Len(subject)
                   ELSE (CHOOSE j \in rest : \A k \in rest : j <= k) - 1))

\* The tokens between the first 'You paid' and the '$' of the amount.
PaidTo(subject) ==
    LET y == CHOOSE i \in 1..Len(subject) :
                 /\ subject[i] = "You" /\ subject[i + 1] = "paid"
                 /\ \A j \in 1..(i - 1) : ~(subject[j] = "You" /\ subject[j + 1] = "paid")
        d == CHOOSE i \in (y + 3)..Len(subject) :
                 subject[i] = "$" /\ \A j \in (y + 3)..(i - 1) : subject[j] # "$"
    IN Join(SubSeq(subject, y + 2, d - 1))

\* The tokens before the first 'paid you'.
PaidBy(subject) ==
    LET y == CHOOSE i \in 1..Len(subject) :
                 /\ subject[i] = "paid" /\ subject[i + 1] = "you"
                 /\ \A j \in 1..(i - 1) : ~(subject[j] = "paid" /\ subject[j + 1] = "you")
    IN Join(SubSeq(subject, 1, y - 1))

\* C12: a transaction extracted from a Venmo message has bucket 'Expense'
\* and account 'Venmo'; with 'You paid' in the subject its amount is the
\* text after '$' and its merchant the text between 'You paid' and the
\* amount; otherwise its amount is that text with '-' before it and its
\* merchant the text before 'paid you'.
C12_VenmoFields ==
    \A out \in Outs :
        (call.from_email = VENMO_EMAIL /\ out.kind = "txn") =>
            /\ out.txn.bucket = "Expense"
            /\ out.txn.account_name = "Venmo"
            /\ IF Contains(call.subject, <<"You", "paid">>)
               THEN /\ out.txn.amount = AfterDollar(call.subject)
                    /\ out.txn.merchant = PaidTo(call.subject)
               ELSE /\ out.txn.amount = "-" \o AfterDollar(call.subject)
                    /\ out.txn.merchant = PaidBy(call.subject)

\* 'Bob paid you $5.00' gave amount '-5.00' and merchant 'Bob' in every
\* engine.
C12_Witness ==
    /\ call.from_email = VENMO_EMAIL
    /\ call.subject = <<"Bob", "paid", "you", "$", "5.00">>
    /\ \A out \in Outs : /\ out.kind = "txn"
                         /\ out.txn.amount = "-5.00"
                         /\ out.txn.merchant = "Bob"

\* ---------------------------------------------------- claims: amounts

\* The numeric texts: digits, a point and two digits, with or without sign.
Unsigned == {StripCommas(m) : m \in MoneyComma}
IsNumeric(text) == text \in Unsigned \cup {"-" \o m : m \in Unsigned}

\* C13: the amount of every transaction an engine produces is a non-empty
\* numeric text, signed or not.
C13_AmountIsNumeric ==
    \A out \in Outs : out.kind = "txn" => IsNumeric(out.txn.amount)

\* ------------------------------------- claims: recurring and category

\* The rule of the call is the Chase direct-deposit rule.
DepositCall ==
    /\ call.from_email = CHASE_EMAIL
    /\ ~Contains(call.subject, <<"You", "sent">>)
    /\ ~Contains(call.subject, <<"transaction", "with">>)
    /\ Contains(call.subject, <<"direct", "deposit">>)

C15_RulesCompose == r_out.kind = "done" => r_out.joined = r_out.staged

\* A rule A followed by a rule B gives another name than B followed by A.
C15_Witness ==
    /\ r_out.kind = "done"
    /\ Len(r_rules1) = 1
    /\ Len(r_rules2) = 1
    /\ r_rules1[1].pattern # <<>>
    /\ r_rules2[1].pattern # <<>>
    /\ Contains(r_merchant, r_rules1[1].pattern)
    /\ r_out.joined.merchant # r_out.swapped.merchant
    /\ r_out.joined = r_out.staged

\* C16: a backfill that follows a backfill, the rules unchanged, rewrites
\* no stored transaction and returns the count zero.
C16_BackfillIdempotent ==
    (bf_out.runs >= 2 /\ bf_out.exc = "")
        => (bf_out.updated_count = 0 /\ bf_out.rewritten = {})

\* C17: with an institution address not configured, a run of the backend
\* lists, parses and stores no message.
C17_MissingAddressStopsRun ==
    MissingVariable(env) => (uuids = 0 /\ b_pending = <<>> /\ transactions = {})

Ids(rows) == {t.txn.transaction_id : t \in rows}

\* C18: no two stored transactions have the same transaction_id, and no
\* step changes the transaction_id of a stored one: an id leaves the table
\* only by the delete of that id, and an id enters it only with the row a
\* refresh inserts.
C18_IdsUniqueAndImmutable ==
    /\ [](\A t \in transactions : \A u \in transactions :
              t.txn.transaction_id = u.txn.transaction_id => t = u)
    /\ [][/\ \A id \in Ids(transactions) \ Ids(transactions') :
                 DeleteTransaction(id)
          /\ \A id \in Ids(transactions') \ Ids(transactions) :
                 /\ b_pc = "store"
                 /\ b_pending # <<>>
                 /\ Head(b_pending).txn.transaction_id = id
                 /\ edits' = edits]_vars

\* Two rows are stored, and a PATCH whose body names another
\* transaction_id has rewritten the category of the row uuid-1.
C18_Witness ==
    /\ Cardinality(transactions) >= 2
    /\ edits = MaxEdits
    /\ \E t \in transactions : t.txn.transaction_id = "uuid-1" /\ t.txn.category = "Food"

ChaseCases == << <<"You", "sent">>, <<"transaction", "with">>, <<"direct", "deposit">> >>

CasesPresent == {i \in 1..Len(ChaseCases) : Contains(call.subject, ChaseCases[i])}

FirstCase ==
    IF CasesPresent = {} THEN 0
    ELSE CHOOSE i \in CasesPresent : \A j \in CasesPresent : i <= j

CaseSteps(i) ==
    IF i = 1 THEN ChaseTransferSteps(call.email_timestamp, call.email_content, "uuid", tz)
    ELSE IF i = 2
    THEN ChaseCardSteps(call.subject, call.email_timestamp, call.email_content, "uuid", tz)
    ELSE ChaseDepositSteps(call.subject, call.email_timestamp, "uuid", tz, env)

\* The outcome is the one of the rule of sub-case i: its transaction when
\* every statement of the rule succeeds, no transaction otherwise.
Decided(out, i) ==
    IF RunSteps(CaseSteps(i)).exc = ""
    THEN /\ out.kind = "txn"
         /\ [out.txn EXCEPT !.transaction_id = "uuid"] = TxnOf(RunSteps(CaseSteps(i)).done)
    ELSE out.kind # "txn"

FirstCaseDecides(out) ==
    IF FirstCase = 0 THEN out.kind = "none" ELSE Decided(out, FirstCase)

SubjectAmounts ==
    {i \in 1..(Len(call.subject) - 1) :
        call.subject[i] = "$" /\ call.subject[i + 1] \in MoneyComma}

SubjectAccounts ==
    {i \in 1..(Len(call.subject) - 2) :
        /\ call.subject[i] = "(..."
        /\ call.subject[i + 1] \in Digits4
        /\ call.subject[i + 2] = ")"}

WellFormedDeposit == DepositCall /\ ~OutOfScope /\ SubjectAmounts # {} /\ SubjectAccounts # {}

DepositProduced(out) ==
    /\ out.kind = "txn"
    /\ out.txn.bucket = "Income"
    /\ out.txn.category = "Paychecks"
    /\ out.txn.merchant = env["EMPLOYER"]
    /\ out.txn.amount =
           StripCommas(call.subject[(CHOOSE i \in SubjectAmounts :
                                        \A j \in SubjectAmounts : i <= j) + 1])
    /\ out.txn.account_name =
           "Chase " \o call.subject[(CHOOSE i \in SubjectAccounts :
                                        \A j \in SubjectAccounts : i <= j) + 1]

\* C20 as stated: an in-scope Chase direct deposit whose subject has an
\* amount and an account gives, in every engine, a transaction with bucket
\* Income, category Paychecks, the employer as merchant, the amount without
\* commas and the account 'Chase ' and the four digits.
C20_DirectDeposit ==
    WellFormedDeposit => \A out \in Outs : out.kind # "notrun" => DepositProduced(out)

\* C20 amended: the same, for parse_transaction_details of utils.py and
\* for the cloud parser.
C20_DirectDepositCurrent ==
    WellFormedDeposit =>
        \A out \in {out_utils, out_cloud} : out.kind # "notrun" => DepositProduced(out)

\* A direct deposit of $1,234.56 gave the amount 1234.56 in both engines.
C20_Witness ==
    /\ WellFormedDeposit
    /\ \A out \in {out_utils, out_cloud} :
           DepositProduced(out) /\ out.txn.amount = "1234.56"
    /\ out_legacy.kind = "none"

\* ------------------------------------------------- claims: the writer

\* The fields of the Transaction entity (class Transaction, to_dict).
TransactionFields ==
    {"transaction_id", "transaction_date", "merchant", "bucket", "amount", "category",
     "subcategory", "account_name", "is_recurring"}

\* C21: every message of the topic that was pushed to process_pubsub_trigger
\* was answered with 200 and left a document whose fields are those of a
\* Transaction, stored under its transaction_id.
C21_PublishedIsStored ==
    \A i \in 1..delivered :
        /\ writer_out[i].status = 200
        /\ \E id \in DOMAIN sink :
               DOMAIN sink[id] \cup {"transaction_id"} = TransactionFields

\* C22: a step adds a record to the collection only for a message that is
\* in the topic, the record has processed = true, and no step changes or
\* removes a record that exists.
C22_RecordOnceAfterPublish ==
    [][/\ \A id \in DOMAIN processed :
              id \in DOMAIN processed' /\ processed'[id] = processed[id]
       /\ \A id \in DOMAIN processed' \ DOMAIN processed :
              /\ Published(id)
              /\ processed'[id].processed = TRUE
              /\ processed'[id].timestamp = mailbox[id]]_vars

\* A later run has met a message that has its record, and passed it over.
C22_Witness ==
    \E id \in DOMAIN processed : Published(id) /\ id \in w_skipped /\ runs >= 2

\* ------------------------------------- claims: the rules at ingestion

\* The stored rules as find/replace pairs, in the order of the table.
FindReplace(table) ==
    [i \in 1..Len(table) |->
        Rule(table[i].merchant_original_name, table[i].merchant_renamed_name)]

\* The merchant name after the stored rules, each applied to the result of
\* the one before.
ApplyStoredRules(merchant, table) ==
    Join(apply_rules_engine(<<merchant>>, FindReplace(table)).merchant)

\* C25: when refresh_transactions handles the next transaction the engine
\* returned, and the write does not fail, the transaction is stored with the
\* merchant the stored rules make of the extracted merchant.
C25_IngestionAppliesRules ==
    [][(b_pc = "store" /\ b_pending # <<>> /\ b_pending' # b_pending /\ faults' = faults)
          => \E t \in transactions' :
                 /\ t.txn.transaction_id = Head(b_pending).txn.transaction_id
                 /\ t.txn.merchant =
                        ApplyStoredRules(Head(b_pending).txn.merchant, transaction_rules)]_vars

\* -------------------------------------- claims: the rule handlers

\* The rules of the create requests made so far, in the order of the
\* requests, as find/replace pairs.
RECURSIVE CreatedRules(_)
CreatedRules(log) ==
    IF log = <<>> THEN <<>>
    ELSE IF Head(log).op = "create"
    THEN <<Rule(Head(log).rule.merchant_original_name,
                Head(log).rule.merchant_renamed_name)>> \o CreatedRules(Tail(log))
    ELSE CreatedRules(Tail(log))

C24_BackfillAfterRuleChange ==
    \A i \in 1..Len(rule_out) :
        rule_out[i].op \in {"create", "update"}
            => rule_out[i].backfills = 1 /\ rule_out[i].exc = ""

\* ---------------------------------------- claims: the message body

FirstOf(S) == CHOOSE i \in S : \A j \in S : i <= j

PartsOfType(payload, mimeType) ==
    {i \in 1..Len(payload.parts) : payload.parts[i].mimeType = mimeType}

\* The body to decode of a multi-part payload: that of its first text/html
\* part; without one, that of the first child of its first
\* multipart/related part; none without either.
PreferredBody(payload) ==
    IF PartsOfType(payload, "text/html") # {}
    THEN [ok |-> TRUE, data |-> payload.parts[FirstOf(PartsOfType(payload, "text/html"))].body]
    ELSE IF PartsOfType(payload, "multipart/related") # {}
    THEN [ok |-> TRUE,
          data |-> payload.parts[FirstOf(PartsOfType(payload, "multipart/related"))]
                       .parts[1].body]
    ELSE [ok |-> FALSE, data |-> <<>>]

\* C26: for a multi-part message that the provider returned, each get_message
\* hands back the body of the first text/html part when there is one, and
\* the first child of a multipart/related part only when there is none.
C26_HtmlPartPreferred ==
    \A e \in DOMAIN msg_out :
        (msg.payload.parts # <<>> /\ "subject" \in msg_out[e].keys)
            => /\ ("body" \in msg_out[e].keys) = PreferredBody(msg.payload).ok
               /\ PreferredBody(msg.payload).ok
                      => msg_out[e].body = PreferredBody(msg.payload).data

\* ------------------------------------- claims: the normalized body

\* The HTML body the provider holds for a message of the mailbox.
HtmlOf(id) == SelectBody(MailMessage(id, mailbox[id]).payload).data

\* C27: the body of every published message is the visible text blocks of
\* the message's HTML, one block per line: the newline stands between two
\* blocks, as in the body the backend hands to the parsers.
C27_NewlineSeparatedBlocks ==
    \A i \in 1..Len(topic) :
        /\ topic[i].message_body = extract_html_content(HtmlOf(topic[i].message_id))
        /\ \A j \in 1..Len(topic[i].message_body) : topic[i].message_body[j] # SlashN

\* ------------------------------------ claims: the lower-bound date

SameOutcome(a, b) ==
    /\ a.kind = b.kind
    /\ a.kind = "txn" => [a.txn EXCEPT !.transaction_id = ""] =
                             [b.txn EXCEPT !.transaction_id = ""]

\* C29: for a message after the watermark, parse_transaction_details of
\* backend/utils.py and TransactionParser.parse_transaction_details have
\* the same outcome.
C29_ParsersAgree ==
    (~OutOfScope /\ out_utils.kind # "notrun" /\ out_cloud.kind # "notrun")
        => SameOutcome(out_utils, out_cloud)

\* ------------------------------------ claims: the backend watermark

\* A message of the mailbox that no refresh has stored a transaction from
\* and that the stored watermark puts out of scope. Each message of the
\* mailbox yields a transaction when it is parsed, and a refresh that ends
\* early leaves the watermark as it was: such a message was never passed to
\* the engine in scope, and no later refresh will pass it.
Lost(id) ==
    /\ StoredFrom(id) = {}
    /\ ~is_email_inscope(mailbox[id], last_transaction_refresh)

\* C30: between two refreshes, every message of a configured sender in the
\* mailbox has been passed in scope to the engine or is still in scope for
\* the next refresh.
C30_NoMessageLost ==
    b_pc = "idle"
        => \A id \in DOMAIN mailbox :
               extract_email(MailMessage(id, mailbox[id]).from) \in Configured
                   => ~Lost(id)

====
